---- MODULE Spec2Model ----
(***************************************************************************)
(* State-machine model of the DCCCSlicer "localizer" module:               *)
(*   lib/atlas_manager.py    AtlasManager                                   *)
(*   lib/image_alignment.py  ImageAlignmentLogic                            *)
(*   lib/math_utils.py       transform algebra                              *)
(*   lib/ui_components.py    MarkupManager                                  *)
(*   lib/metric_calculator.py  MetricCalculatorLogic (asynchronous part)    *)
(*   localizer.py            the Apply and Apply-LR handlers of the widget  *)
(*                                                                         *)
(* Conventions.  Python None is modelled per field: the string "None" for  *)
(* a name, the empty tuple <<>> for a path, an array or a matrix, and the   *)
(* node id 0 for a scene node.  Scene nodes are identified by positive      *)
(* integers.  World coordinates are integers (millimetres); a matrix with   *)
(* fractional entries is kept as integer numerators over one denominator.   *)
(***************************************************************************)
EXTENDS Integers, Sequences, FiniteSets, TLC

VARIABLES
    current_atlas_name,   \* AtlasManager.current_atlas_name
    atlas_path,           \* AtlasManager.atlas_path
    atlas_node,           \* AtlasManager.atlas_node (scene node id, 0 = None)
    atlas_node_arr,       \* AtlasManager.atlas_node_arr (label array [z][y][x])
    ras_to_ijk,           \* AtlasManager.ras_to_ijk (set by the first load only)
    scene,                \* slicer.mrmlScene: sequence of nodes, in insertion order
    volume_data,         \* voxel data of the scalar volume nodes of the scene
    files,                \* atlas files present under templates/
    file_grid,            \* (nx, ny, nz) of the atlas files' voxel grid
    call,                 \* the last AtlasManager operation: arguments, pre-state, result
    transform_table,      \* ImageAlignmentLogic.transform_table: volume id -> transform node
    transforms,           \* the linear transform nodes of the scene, with their matrices
    volume_geom,          \* IJK-to-RAS matrix of each input volume
    markups,              \* the markups fiducial nodes of the scene, in scene order
    n_align,              \* alignment operations called so far
    acall,                \* the last alignment operation: arguments, pre-state, result
    mcall,                \* the last math_utils function applied: arguments and result
    metric,               \* the fields of MetricCalculatorLogic
    processes,            \* the QProcess objects created so far, by process id
    callbacks,            \* the callback invocations so far, in order
    ccall,                \* the last step of the calculator: call or signal, pre-state, result
    rm                    \* the loop of MarkupManager.remove_specific_markups

atlas_vars == <<current_atlas_name, atlas_path, atlas_node, atlas_node_arr, ras_to_ijk>>
env_vars == <<scene, volume_data, files, file_grid>>
align_vars == <<transform_table, transforms, volume_geom, markups, n_align, acall>>
calc_vars == <<metric, processes, callbacks, ccall>>
ext_vars == <<calc_vars, rm>>
vars == <<atlas_vars, env_vars, call, align_vars, mcall, ext_vars>>

----------------------------------------------------------------------------
(* Bounds of the model *)

\* longest list of points handed to _get_regions_for_points
MaxPoints == 2
\* scalar volume nodes the scene may hold
MaxVolumes == 1
\* alignment operations in one run
MaxAlignCalls == 2
\* asynchronous calculations requested in one run
MaxCalcs == 2
\* chunks of output buffered on one channel
MaxChunks == 1
\* fiducial nodes in a scene built node by node
MaxNodes == 3
\* control points placed into the nodes of such a scene
MaxPlaced == 2

----------------------------------------------------------------------------
(* None values *)

NoName == "None"
NoPath == <<>>
NoNode == 0
NoArray == <<>>
NoMatrix == <<>>
NoValue == <<>>

----------------------------------------------------------------------------
(* Registry, file system and atlas files *)

AVAILABLE_ATLASES == {"AAL.seg.nrrd", "BN_Atlas_246_2mm.seg.nrrd"}

\* names a caller may pass: the registered ones and an unregistered one
AtlasNameInputs == AVAILABLE_ATLASES \cup {"unknown.seg.nrrd"}

\* self.templates_path / atlas_filename
TemplatePath(atlas_filename) == <<"templates", atlas_filename>>

\* voxel grids (nx, ny, nz) an atlas file may have: a cube and two grids whose
\* x and z sizes differ
FileGrids == {<<2, 2, 2>>, <<3, 2, 2>>, <<2, 2, 3>>}

\* voxel spacing of the atlas files in millimetres, the same on every axis
AtlasSpacing == 2

\* label stored in atlas file f at voxel (i, j, k), 0-based; 0 is background
FileLabel(f, i, j, k) ==
    IF f = "AAL.seg.nrrd" THEN (i + j + k) % 3 ELSE (i + 2 * j + k + 1) % 3

\* the labels an atlas file may hold
Labels == 0..2

\* slicer.util.arrayFromVolume: the voxels as an array indexed [k][j][i]
\* (z-major), here 1-based
ArrayFromVolume(f, grid) ==
    [k \in 1..grid[3] |-> [j \in 1..grid[2] |-> [i \in 1..grid[1] |->
        FileLabel(f, i - 1, j - 1, k - 1)]]]

\* numpy shape of a label array: (nz, ny, nx)
Shape(arr) == <<Len(arr), Len(arr[1]), Len(arr[1][1])>>

\* vtkMRMLVolumeNode.GetRASToIJKMatrix of an atlas volume: origin (0,0,0),
\* axis-aligned, spacing AtlasSpacing; entries are numerators over RasToIjkDen
RasToIjkDen == AtlasSpacing
RASToIJKMatrix ==
    <<  <<1, 0, 0, 0>>,
        <<0, 1, 0, 0>>,
        <<0, 0, 1, 0>>,
        <<0, 0, 0, RasToIjkDen>> >>

----------------------------------------------------------------------------
(* Scene helpers *)

\* a lookup that never finds a node
GetFirstNodeByName_never(sc, name) == NoNode

\* slicer.util.getFirstNodeByName: id of the first node of that name, or None
GetFirstNodeByName(sc, name) ==
    IF \E n \in 1..Len(sc) : sc[n].name = name
    THEN sc[CHOOSE n \in 1..Len(sc) :
                /\ sc[n].name = name
                /\ \A m \in 1..(n - 1) : sc[m].name # name].id
    ELSE NoNode

NodeIds(sc) == {sc[n].id : n \in 1..Len(sc)}

\* a fresh node id
NewNodeId(sc) == IF Len(sc) = 0 THEN 1
                 ELSE 1 + (CHOOSE x \in NodeIds(sc) : \A y \in NodeIds(sc) : y <= x)

NodesOfClass(sc, cls) == SelectSeq(sc, LAMBDA n : n.cls = cls)

----------------------------------------------------------------------------
(* AtlasManager state as a record, to compose the methods functionally *)

MgrState ==
    [ current_atlas_name |-> current_atlas_name,
      atlas_path         |-> atlas_path,
      atlas_node         |-> atlas_node,
      atlas_node_arr     |-> atlas_node_arr,
      ras_to_ijk         |-> ras_to_ijk ]

\* AtlasManager.__init__
\* a constructor that selects the BN atlas
InitMgr_preselected ==
    [ current_atlas_name |-> "BN_Atlas_246_2mm.seg.nrrd",
      atlas_path         |-> TemplatePath("BN_Atlas_246_2mm.seg.nrrd"),
      atlas_node         |-> NoNode,
      atlas_node_arr     |-> NoArray,
      ras_to_ijk         |-> NoMatrix ]

\* AtlasManager.__init__
InitMgr ==
    [ current_atlas_name |-> NoName,
      atlas_path         |-> NoPath,
      atlas_node         |-> NoNode,
      atlas_node_arr     |-> NoArray,
      ras_to_ijk         |-> NoMatrix ]

\* AtlasManager.clear_current_atlas
clear_current_atlas(m) ==
    [m EXCEPT !.atlas_node = NoNode, !.atlas_node_arr = NoArray]

\* a set_atlas that records the name and the path before it validates the name
set_atlas_record_first(m, atlas_name) ==
    LET m1 == [m EXCEPT !.current_atlas_name = atlas_name,
                        !.atlas_path = TemplatePath(atlas_name)]
    IN  IF atlas_name \notin AVAILABLE_ATLASES
        THEN [m |-> m1, ret |-> FALSE]
        ELSE [m |-> IF m1.atlas_node # NoNode THEN clear_current_atlas(m1) ELSE m1,
              ret |-> TRUE]

\* AtlasManager.set_atlas: the new manager state and the returned bool
set_atlas(m, atlas_name) ==
    IF atlas_name \notin AVAILABLE_ATLASES
    THEN [m |-> m, ret |-> FALSE]
    ELSE LET m1 == [m EXCEPT !.current_atlas_name = atlas_name,
                             !.atlas_path = TemplatePath(atlas_name)]
         IN  [m |-> IF m1.atlas_node # NoNode THEN clear_current_atlas(m1) ELSE m1,
              ret |-> TRUE]

\* AtlasManager._load_atlas_volume_data: reads the file at atlas_path as a volume
\* (through a temporary node that is removed again)
load_atlas_volume_data(m, grid) ==
    [m EXCEPT !.ras_to_ijk = RASToIJKMatrix,
              !.atlas_node_arr = ArrayFromVolume(m.atlas_path[2], grid)]

\* AtlasManager.load_atlas.  seg_ok: whether slicer.util.loadSegmentation
\* yields a node.  Result: the manager state, the scene, the returned node,
\* the number of times the atlas file was read as a volume, and the branch of
\* the method that returned.
load_atlas(m, sc, fs, grid, atlas_name, seg_ok) ==
    LET s == IF atlas_name # NoName THEN set_atlas(m, atlas_name)
             ELSE [m |-> m, ret |-> TRUE]
        m1 == s.m
        failed == [m |-> m1, sc |-> sc, ret |-> NoNode, reads |-> 0]
    IN
    IF ~s.ret
    THEN failed @@ [branch |-> "unknown_atlas"]
    ELSE IF m1.current_atlas_name = NoName \/ m1.atlas_path = NoPath
    THEN failed @@ [branch |-> "no_atlas_selected"]
    ELSE IF m1.atlas_path[2] \notin fs
    THEN failed @@ [branch |-> "file_not_found"]
    ELSE
    LET existing_atlas == GetFirstNodeByName(sc, m1.current_atlas_name) IN
    IF existing_atlas # NoNode
    THEN [ m |-> load_atlas_volume_data([m1 EXCEPT !.atlas_node = existing_atlas], grid),
           sc |-> sc,
           ret |-> existing_atlas,
           reads |-> 1,
           branch |-> "existing_atlas" ]
    ELSE
    LET new_node == IF seg_ok THEN NewNodeId(sc) ELSE NoNode IN
    [ m |-> load_atlas_volume_data([m1 EXCEPT !.atlas_node = new_node], grid),
      sc |-> IF seg_ok
             THEN Append(sc, [id |-> new_node, cls |-> "vtkMRMLSegmentationNode",
                              name |-> m1.current_atlas_name])
             ELSE sc,
      ret |-> new_node,
      reads |-> 1,
      branch |-> IF seg_ok THEN "loaded" ELSE "failed_to_load" ]

----------------------------------------------------------------------------
(* World-to-voxel mapping and label lookup *)

\* vtkMatrix4x4.MultiplyPoint on the numerators of M
MultiplyPoint(M, p) ==
    [r \in 1..4 |-> M[r][1] * p[1] + M[r][2] * p[2] + M[r][3] * p[3] + M[r][4] * p[4]]

\* Python's round() of the fraction n / d, d > 0: to the nearest integer, a tie
\* going to the even neighbour
RoundHalfEven(n, d) ==
    LET q == n \div d
        r == n % d
    IN  IF 2 * r < d THEN q
        ELSE IF 2 * r > d THEN q + 1
        ELSE IF q % 2 = 0 THEN q ELSE q + 1

\* int(round(ijk_point[0..2])) of the world point ras_coords
RoundedVoxel(M, ras_coords) ==
    LET ijk_point == MultiplyPoint(M, <<ras_coords[1], ras_coords[2], ras_coords[3], 1>>)
    IN  <<RoundHalfEven(ijk_point[1], RasToIjkDen),
          RoundHalfEven(ijk_point[2], RasToIjkDen),
          RoundHalfEven(ijk_point[3], RasToIjkDen)>>

\* the bounds test of _ras_to_voxel: each component against the entry of
\* image_data.shape at the same position
InImageRange(voxel_coords, dims) ==
    /\ 0 <= voxel_coords[1] /\ voxel_coords[1] < dims[1]
    /\ 0 <= voxel_coords[2] /\ voxel_coords[2] < dims[2]
    /\ 0 <= voxel_coords[3] /\ voxel_coords[3] < dims[3]

\* AtlasManager._ras_to_voxel: the voxel triple or None; AttributeError when
\* ras_to_ijk was never set or no label array is resident
ras_to_voxel(m, ras_coords) ==
    IF m.ras_to_ijk = NoMatrix \/ m.atlas_node_arr = NoArray
    THEN [ret |-> NoValue, exc |-> "AttributeError"]
    ELSE LET voxel_coords == RoundedVoxel(m.ras_to_ijk, ras_coords)
             dims == Shape(m.atlas_node_arr)
         IN  [ret |-> IF InImageRange(voxel_coords, dims) THEN voxel_coords ELSE NoValue,
              exc |-> "none"]

\* numpy's reading of one index against an axis of n entries: a negative index
\* counts from the end; -1 stands for "out of range"
NumpyIndex(idx, n) ==
    IF 0 <= idx /\ idx < n THEN idx
    ELSE IF -n <= idx /\ idx < 0 THEN n + idx
    ELSE -1

\* AtlasManager._get_label_at_voxel: image_data[k, j, i], IndexError outside
get_label_at_voxel(m, voxel_coords) ==
    LET arr == m.atlas_node_arr
        dims == Shape(arr)
        z == NumpyIndex(voxel_coords[3], dims[1])
        y == NumpyIndex(voxel_coords[2], dims[2])
        x == NumpyIndex(voxel_coords[1], dims[3])
    IN  IF z < 0 \/ y < 0 \/ x < 0
        THEN [ret |-> 0, exc |-> "IndexError"]
        ELSE [ret |-> arr[z + 1][y + 1][x + 1], exc |-> "none"]

\* the loop of _get_regions_for_points over points[n..], regions collected so far
RECURSIVE RegionsLoop(_, _, _, _)
RegionsLoop(m, points, n, regions) ==
    IF n > Len(points) THEN [ret |-> regions, exc |-> "none"]
    ELSE
    LET point == points[n]
        ras_point == point.coordinates
        v == ras_to_voxel(m, ras_point)
    IN
    IF v.exc # "none" THEN [ret |-> <<>>, exc |-> v.exc]
    ELSE IF v.ret = NoValue THEN RegionsLoop(m, points, n + 1, regions)
    ELSE
    LET l == get_label_at_voxel(m, v.ret) IN
    IF l.exc # "none" THEN [ret |-> <<>>, exc |-> l.exc]
    ELSE IF l.ret > 0
    THEN RegionsLoop(m, points, n + 1,
            Append(regions, [ point_name   |-> point.name,
                              coordinates  |-> ras_point,
                              voxel_coords |-> v.ret,
                              label_value  |-> l.ret ]))
    ELSE RegionsLoop(m, points, n + 1, regions)

\* AtlasManager._get_regions_for_points
get_regions_for_points(m, points) ==
    IF Len(points) = 0 THEN [ret |-> <<>>, exc |-> "none"]
    ELSE RegionsLoop(m, points, 1, <<>>)

\* a mask that marks every labelled voxel, whatever the label set
CombinedArray_any_label(arr, labels) ==
    [z \in 1..Len(arr) |-> [y \in 1..Len(arr[1]) |-> [x \in 1..Len(arr[1][1]) |->
        IF arr[z][y][x] # 0 THEN 1 ELSE 0]]]

\* the mask of _create_volume_from_labels: zeros_like(arr), 1 where arr == label
\* for a label of labels
CombinedArray(arr, labels) ==
    [z \in 1..Len(arr) |-> [y \in 1..Len(arr[1]) |-> [x \in 1..Len(arr[1][1]) |->
        IF \E label \in labels : arr[z][y][x] = label THEN 1 ELSE 0]]]

\* names that contain "ROI": their volumes are shown with the red colour table
RoiVolumeNames == {"ROI_Combined_AAL.seg.nrrd", "ROI_Combined_BN_Atlas_246_2mm.seg.nrrd",
                   "ROI_Combined"}
RefVolumeNames == {"Ref_Combined_AAL.seg.nrrd", "Ref_Combined_BN_Atlas_246_2mm.seg.nrrd",
                   "Ref_Combined"}

\* AtlasManager._create_volume_from_labels.  Result: the scene, the volume data
\* and the returned node.  Without a resident label array the new node is added
\* and updateVolumeFromArray then raises on the shapeless array.  The geometry
\* is copied from the atlas file when it can be read (fs), else left default.
create_volume_from_labels(m, sc, vdata, fs, labels, volume_name) ==
    IF labels = {}
    THEN [sc |-> sc, vdata |-> vdata, ret |-> NoNode, exc |-> "none", reads |-> 0]
    ELSE
    LET volume_node == NewNodeId(sc)
        sc1 == Append(sc, [id |-> volume_node, cls |-> "vtkMRMLScalarVolumeNode",
                           name |-> volume_name])
    IN
    IF m.atlas_node_arr = NoArray
    THEN [sc |-> sc1, vdata |-> vdata, ret |-> NoNode, exc |-> "RuntimeError",
          reads |-> 0]
    ELSE
    [ sc |-> sc1,
      vdata |-> Append(vdata, [
          id |-> volume_node,
          array |-> CombinedArray(m.atlas_node_arr, labels),
          geometry |-> IF m.atlas_path # NoPath /\ m.atlas_path[2] \in fs
                       THEN m.atlas_path ELSE NoPath,
          color |-> IF volume_name \in RoiVolumeNames
                    THEN "vtkMRMLColorTableNodeRed" ELSE "vtkMRMLColorTableNodeBlue" ]),
      ret |-> volume_node,
      exc |-> "none",
      reads |-> IF m.atlas_path # NoPath /\ m.atlas_path[2] \in fs THEN 1 ELSE 0 ]

----------------------------------------------------------------------------
(* Transform algebra: lib/math_utils.py over integers.  The inputs of the   *)
(* model are axis-aligned, so that every norm is an integer and every       *)
(* rotation is by a multiple of a right angle.  NaN is the floating-point    *)
(* not-a-number that numpy yields for 0/0; it propagates through arithmetic. *)

NaN == 1000000

NAdd(a, b) == IF a = NaN \/ b = NaN THEN NaN ELSE a + b
NSub(a, b) == IF a = NaN \/ b = NaN THEN NaN ELSE a - b
NMul(a, b) == IF a = NaN \/ b = NaN THEN NaN ELSE a * b
\* numpy division; the model only divides a vector by its own norm
NDiv(a, b) ==
    IF a = NaN \/ b = NaN \/ b = 0 THEN NaN
    ELSE IF a >= 0 THEN a \div b ELSE -((-a) \div b)

Abs(a) == IF a < 0 THEN -a ELSE a

VSub(u, v) == <<NSub(u[1], v[1]), NSub(u[2], v[2]), NSub(u[3], v[3])>>
VNeg(u) == <<NSub(0, u[1]), NSub(0, u[2]), NSub(0, u[3])>>
VScaleDown(u, n) == <<NDiv(u[1], n), NDiv(u[2], n), NDiv(u[3], n)>>

\* np.dot
Dot(u, v) == NAdd(NAdd(NMul(u[1], v[1]), NMul(u[2], v[2])), NMul(u[3], v[3]))

\* np.cross
Cross(u, v) ==
    << NSub(NMul(u[2], v[3]), NMul(u[3], v[2])),
       NSub(NMul(u[3], v[1]), NMul(u[1], v[3])),
       NSub(NMul(u[1], v[2]), NMul(u[2], v[1])) >>

\* np.linalg.norm of a vector with at most one non-zero component
Norm(u) ==
    IF u[1] = NaN \/ u[2] = NaN \/ u[3] = NaN THEN NaN
    ELSE Abs(u[1]) + Abs(u[2]) + Abs(u[3])

\* np.eye(4)
Identity4 ==
    << <<1, 0, 0, 0>>, <<0, 1, 0, 0>>, <<0, 0, 1, 0>>, <<0, 0, 0, 1>> >>

\* np.dot of two 4x4 matrices, vtkMatrix4x4.Multiply4x4
MatMulEntry(A, B, r, c) ==
    NAdd(NAdd(NMul(A[r][1], B[1][c]), NMul(A[r][2], B[2][c])),
         NAdd(NMul(A[r][3], B[3][c]), NMul(A[r][4], B[4][c])))

MatMulRow(A, B, r) ==
    << MatMulEntry(A, B, r, 1), MatMulEntry(A, B, r, 2),
       MatMulEntry(A, B, r, 3), MatMulEntry(A, B, r, 4) >>

MatMul(A, B) ==
    << MatMulRow(A, B, 1), MatMulRow(A, B, 2), MatMulRow(A, B, 3), MatMulRow(A, B, 4) >>

\* a 4x4 matrix applied to the point p (homogeneous coordinate 1)
MatPointEntry(A, p, r) ==
    NAdd(NAdd(NMul(A[r][1], p[1]), NMul(A[r][2], p[2])),
         NAdd(NMul(A[r][3], p[3]), A[r][4]))

MatPoint(A, p) ==
    << MatPointEntry(A, p, 1), MatPointEntry(A, p, 2), MatPointEntry(A, p, 3) >>

\* a translation matrix that drops the translation
create_translation_matrix_none(translation) == Identity4

\* a translation matrix with the vector in the bottom row
create_translation_matrix_transposed(translation) ==
    << <<1, 0, 0, 0>>,
       <<0, 1, 0, 0>>,
       <<0, 0, 1, 0>>,
       <<translation[1], translation[2], translation[3], 1>> >>

\* create_translation_matrix
create_translation_matrix(translation) ==
    << <<1, 0, 0, translation[1]>>,
       <<0, 1, 0, translation[2]>>,
       <<0, 0, 1, translation[3]>>,
       <<0, 0, 0, 1>> >>

\* an angle as its sine and cosine; np.arccos(d) of a cosine d in {-1, 0, 1}
\* lies in [0, pi], so its sine is 1 - d*d
Angle0 == [sin |-> 0, cos |-> 1]
ArcCos(d) == IF d = NaN THEN [sin |-> NaN, cos |-> NaN]
             ELSE [sin |-> 1 - d * d, cos |-> d]

\* create_rotation_matrix: Rodrigues' formula R = I + sin K + (1 - cos) K.K
create_rotation_matrix(axis_in, angle) ==
    LET axis == VScaleDown(axis_in, Norm(axis_in))
        K == << <<0, NSub(0, axis[3]), axis[2]>>,
                <<axis[3], 0, NSub(0, axis[1])>>,
                <<NSub(0, axis[2]), axis[1], 0>> >>
        KK(r, c) == NAdd(NAdd(NMul(K[r][1], K[1][c]), NMul(K[r][2], K[2][c])),
                         NMul(K[r][3], K[3][c]))
        R(r, c) == NAdd(NAdd(Identity4[r][c], NMul(angle.sin, K[r][c])),
                        NMul(NSub(1, angle.cos), KK(r, c)))
    IN  << <<R(1, 1), R(1, 2), R(1, 3), 0>>,
           <<R(2, 1), R(2, 2), R(2, 3), 0>>,
           <<R(3, 1), R(3, 2), R(3, 3), 0>>,
           <<0, 0, 0, 1>> >>

\* the rotation that turns direction onto ref_axis, as create_affine_matrix and
\* transform_lr compute it: none when the cross product has norm zero
RotationOnto(direction, ref_axis) ==
    LET normalised_direction == VScaleDown(direction, Norm(direction))
        axis == Cross(normalised_direction, ref_axis)
    IN  IF Norm(axis) # 0
        THEN create_rotation_matrix(VScaleDown(axis, Norm(axis)),
                                    ArcCos(Dot(normalised_direction, ref_axis)))
        ELSE create_rotation_matrix(<<0, 0, 1>>, Angle0)

\* an affine matrix that rotates first and translates afterwards
create_affine_matrix_rotate_first(ac, bc) ==
    LET T == create_translation_matrix(VNeg(ac))
        R == RotationOnto(VSub(bc, ac), <<0, -1, 0>>)
    IN  MatMul(T, R)

\* create_affine_matrix: translate ac to the origin, then rotate bc - ac onto
\* the posterior axis (0, -1, 0)
create_affine_matrix(ac, bc) ==
    LET T == create_translation_matrix(VNeg(ac))
        R == RotationOnto(VSub(bc, ac), <<0, -1, 0>>)
    IN  MatMul(R, T)

----------------------------------------------------------------------------
(* ImageAlignmentLogic: lib/image_alignment.py *)

NoTarget == "None"
VolumeIds == {"vtkMRMLScalarVolumeNode1", "vtkMRMLScalarVolumeNode2"}

\* the alignment state as a record
AlignState ==
    [ transform_table |-> transform_table,
      transforms      |-> transforms,
      volume_geom     |-> volume_geom,
      markups         |-> markups ]

\* vtkSlicerTransformLogic.hardenTransform on a markups node: every control
\* point is moved by the matrix
RECURSIVE HardenPoints(_, _)
HardenPoints(points, M) ==
    IF points = <<>> THEN <<>>
    ELSE <<MatPoint(M, Head(points))>> \o HardenPoints(Tail(points), M)

HardenMarkup(mk, M) == [mk EXCEPT !.points = HardenPoints(@, M)]

\* a hardening that reaches only the first marker of the list
HardenMarkups_first_only(mks, markup_nodes, M) ==
    [n \in 1..Len(mks) |->
        IF Len(markup_nodes) > 0 /\ markup_nodes[1] = mks[n].id
        THEN HardenMarkup(mks[n], M) ELSE mks[n]]

\* the markups after hardening M into those whose id is in markup_nodes
RECURSIVE HardenMarkups(_, _, _)
HardenMarkups(mks, markup_nodes, M) ==
    IF mks = <<>> THEN <<>>
    ELSE LET mk == Head(mks) IN
         << IF \E k \in 1..Len(markup_nodes) : markup_nodes[k] = mk.id
            THEN HardenMarkup(mk, M) ELSE mk >>
         \o HardenMarkups(Tail(mks), markup_nodes, M)

\* an alignment step that makes a new transform node on every call
ApplyAndHarden_always_new(a, new_matrix, target_node, markup_nodes) ==
    LET transform_node == Len(a.transforms) + 1
        composite_matrix == MatMul(new_matrix, Identity4)
    IN  [ transform_table |-> [a.transform_table EXCEPT ![target_node] = transform_node],
          transforms      |-> Append(a.transforms, [id |-> transform_node,
                                                    volume |-> target_node,
                                                    matrix |-> composite_matrix]),
          volume_geom     |-> [a.volume_geom EXCEPT
                                 ![target_node] = MatMul(composite_matrix, @)],
          markups         |-> HardenMarkups(a.markups, markup_nodes, composite_matrix) ]

\* the part the three operations share: find or create the volume's transform
\* node, set its matrix to new_matrix composed with a fresh identity, harden
\* it into the volume and into every marker that is not None
ApplyAndHarden(a, new_matrix, target_node, markup_nodes) ==
    LET known == a.transform_table[target_node] # NoNode
        transform_node == IF known THEN a.transform_table[target_node]
                          ELSE Len(a.transforms) + 1
        existing_matrix == Identity4
        composite_matrix == MatMul(new_matrix, existing_matrix)
        tr == IF known
              THEN [a.transforms EXCEPT ![transform_node].matrix = composite_matrix]
              ELSE Append(a.transforms, [id |-> transform_node,
                                         volume |-> target_node,
                                         matrix |-> composite_matrix])
    IN  [ transform_table |-> [a.transform_table EXCEPT ![target_node] = transform_node],
          transforms      |-> tr,
          volume_geom     |-> [a.volume_geom EXCEPT
                                 ![target_node] = MatMul(composite_matrix, @)],
          markups         |-> HardenMarkups(a.markups, markup_nodes, composite_matrix) ]

\* ImageAlignmentLogic.translate_ac: the new state and the exception raised
translate_ac(a, ac_coord, target_node, markup_node) ==
    IF target_node = NoTarget
    THEN [a |-> a, exc |-> "none"]
    ELSE [a |-> ApplyAndHarden(a, create_translation_matrix(VNeg(ac_coord)),
                               target_node, <<markup_node>>),
          exc |-> "none"]

\* ImageAlignmentLogic.transform_acpc
transform_acpc(a, ac_coord, pc_coord, target_node, markup_nodes) ==
    IF target_node = NoTarget
    THEN [a |-> a, exc |-> "none"]
    ELSE [a |-> ApplyAndHarden(a, create_affine_matrix(ac_coord, pc_coord),
                               target_node, markup_nodes),
          exc |-> "none"]

\* a transform_lr that first moves the left point to the origin
transform_lr_about_left(a, left_coord, right_coord, target_node, markup_nodes) ==
    IF target_node = NoTarget
    THEN [a |-> a, exc |-> "AttributeError"]
    ELSE [a |-> ApplyAndHarden(a, MatMul(RotationOnto(VSub(right_coord, left_coord),
                                                      <<-1, 0, 0>>),
                                         create_translation_matrix(VNeg(left_coord))),
                               target_node, markup_nodes),
          exc |-> "none"]

\* ImageAlignmentLogic.transform_lr: no test of target_node, so None has no
\* GetID and the call raises
transform_lr(a, left_coord, right_coord, target_node, markup_nodes) ==
    IF target_node = NoTarget
    THEN [a |-> a, exc |-> "AttributeError"]
    ELSE [a |-> ApplyAndHarden(a, RotationOnto(VSub(right_coord, left_coord),
                                               <<-1, 0, 0>>),
                               target_node, markup_nodes),
          exc |-> "none"]

----------------------------------------------------------------------------
(* MarkupManager: lib/ui_components.py, and the Apply handler of the widget *)

\* MarkupManager.find_markup_node_by_name: the first fiducial node of that name
find_markup_node_by_name(mks, node_name) ==
    IF \E n \in 1..Len(mks) : mks[n].name = node_name
    THEN mks[CHOOSE n \in 1..Len(mks) :
                 /\ mks[n].name = node_name
                 /\ \A k \in 1..(n - 1) : mks[k].name # node_name].id
    ELSE NoNode

\* the fiducial node with that id
MarkupById(mks, node) == mks[CHOOSE n \in 1..Len(mks) : mks[n].id = node]

\* MarkupManager.get_point_ras: the first control point of the node, or None
get_point_ras(mks, node) ==
    IF node = NoNode THEN NoValue
    ELSE IF Len(MarkupById(mks, node).points) > 0
    THEN MarkupById(mks, node).points[1]
    ELSE NoValue

\* localizerWidget.onApplyButton: the alignment it runs, with its arguments,
\* and the state after it
onApplyButton(a, inputVolume) ==
    LET acNode == find_markup_node_by_name(a.markups, "AC")
        pcNode == find_markup_node_by_name(a.markups, "PC")
        acCoord == get_point_ras(a.markups, acNode)
        pcCoord == get_point_ras(a.markups, pcNode)
        leftNode == find_markup_node_by_name(a.markups, "Left")
        rightNode == find_markup_node_by_name(a.markups, "Right")
    IN
    IF acCoord # NoValue /\ pcCoord # NoValue
    THEN LET nodes == <<acNode, pcNode, leftNode, rightNode>> IN
         transform_acpc(a, acCoord, pcCoord, inputVolume, nodes)
            @@ [op |-> "transform_acpc", coord |-> acCoord, coord2 |-> pcCoord,
                markup_nodes |-> nodes]
    ELSE IF acCoord # NoValue /\ pcCoord = NoValue
    THEN translate_ac(a, acCoord, inputVolume, acNode)
            @@ [op |-> "translate_ac", coord |-> acCoord, coord2 |-> <<0, 0, 0>>,
                markup_nodes |-> <<acNode>>]
    ELSE [a |-> a, exc |-> "none", op |-> "none", coord |-> <<0, 0, 0>>,
          coord2 |-> <<0, 0, 0>>, markup_nodes |-> <<>>]

----------------------------------------------------------------------------
(* ROI and Ref landmarks of AtlasManager, and the combined regions *)

\* the names the model gives to fiducial nodes end in one of these
NameSuffixes == {"", "01", "02", "03"}

\* str.startswith on the names of the model
StartsWith(name, prefix) == \E suffix \in NameSuffixes : name = prefix \o suffix

\* f"{node.GetName()}_{j}" for the control point with index j
Digits == <<"0", "1", "2", "3">>
PointName(name, j) == name \o "_" \o Digits[j + 1]

\* the entries _get_points_by_prefix appends for one node: one per control
\* point, each with the coordinates get_point_ras reads from the node
RECURSIVE PointsOfNode(_, _, _)
PointsOfNode(mks, node, j) ==
    IF j >= Len(node.points) THEN <<>>
    ELSE << [ name        |-> PointName(node.name, j),
              coordinates |-> get_point_ras(mks, node.id),
              node        |-> node.id ] >>
         \o PointsOfNode(mks, node, j + 1)

\* the loop of _get_points_by_prefix over the fiducial nodes from the i-th on
RECURSIVE PointsLoop(_, _, _)
PointsLoop(mks, prefix, i) ==
    IF i > Len(mks) THEN <<>>
    ELSE (IF StartsWith(mks[i].name, prefix) THEN PointsOfNode(mks, mks[i], 0)
          ELSE <<>>)
         \o PointsLoop(mks, prefix, i + 1)

\* AtlasManager._get_points_by_prefix
get_points_by_prefix(mks, prefix) == PointsLoop(mks, prefix, 1)

\* the name and the coordinates of the points, as _get_regions_for_points reads them
AsPoints(points) ==
    [n \in 1..Len(points) |->
        [name |-> points[n].name, coordinates |-> points[n].coordinates]]

\* a calculate_brain_regions that does not test for a loaded atlas
calculate_brain_regions_unguarded(m, mks) ==
    [none |-> FALSE, roi |-> <<>>, ref |-> <<>>, exc |-> "none", display |-> "warning"]

\* AtlasManager.calculate_brain_regions.  none: the result is (None, None);
\* display: the message box shown
calculate_brain_regions(m, mks) ==
    IF m.atlas_node = NoNode \/ m.current_atlas_name = NoName
    THEN [none |-> TRUE, roi |-> <<>>, ref |-> <<>>, exc |-> "none", display |-> "error"]
    ELSE
    LET roi_points == get_points_by_prefix(mks, "ROI_")
        ref_points == get_points_by_prefix(mks, "Ref_")
    IN
    IF Len(roi_points) = 0 /\ Len(ref_points) = 0
    THEN [none |-> FALSE, roi |-> <<>>, ref |-> <<>>, exc |-> "none",
          display |-> "warning"]
    ELSE
    LET roi_regions == get_regions_for_points(m, AsPoints(roi_points)) IN
    IF roi_regions.exc # "none"
    THEN [none |-> FALSE, roi |-> <<>>, ref |-> <<>>, exc |-> roi_regions.exc,
          display |-> "none"]
    ELSE
    LET ref_regions == get_regions_for_points(m, AsPoints(ref_points)) IN
    IF ref_regions.exc # "none"
    THEN [none |-> FALSE, roi |-> <<>>, ref |-> <<>>, exc |-> ref_regions.exc,
          display |-> "none"]
    ELSE [none |-> FALSE, roi |-> roi_regions.ret, ref |-> ref_regions.ret,
          exc |-> "none", display |-> "none"]

\* only the label of the first region
LabelsOf_first(regions) == {regions[1].label_value}

\* set(region["label_value"] for region in regions)
LabelsOf(regions) == {regions[n].label_value : n \in 1..Len(regions)}

\* a local variable: F applied to the value once it is computed
Bind(value, F(_)) == CHOOSE r \in {F(x) : x \in {value}} : TRUE

\* AtlasManager._create_combined_volumes: the scene and the volume data after
\* it, and the two volumes
create_combined_volumes(m, sc, vdata, fs, roi_regions, ref_regions) ==
    LET suffix == IF m.current_atlas_name # NoName
                  THEN "_" \o m.current_atlas_name ELSE ""
        skipped(sc0, vdata0) == [sc |-> sc0, vdata |-> vdata0, ret |-> NoNode,
                                 exc |-> "none", reads |-> 0]
    IN
    Bind(IF Len(roi_regions) > 0
         THEN create_volume_from_labels(m, sc, vdata, fs, LabelsOf(roi_regions),
                                        "ROI_Combined" \o suffix)
         ELSE skipped(sc, vdata),
         LAMBDA roi :
    IF roi.exc # "none"
    THEN [sc |-> roi.sc, vdata |-> roi.vdata, roi_volume |-> NoNode,
          ref_volume |-> NoNode, exc |-> roi.exc, reads |-> roi.reads]
    ELSE
    Bind(IF Len(ref_regions) > 0
         THEN create_volume_from_labels(m, roi.sc, roi.vdata, fs,
                                        LabelsOf(ref_regions), "Ref_Combined" \o suffix)
         ELSE skipped(roi.sc, roi.vdata),
         LAMBDA ref :
    [sc |-> ref.sc, vdata |-> ref.vdata, roi_volume |-> roi.ret,
     ref_volume |-> ref.ret, exc |-> ref.exc, reads |-> roi.reads + ref.reads]))

\* AtlasManager.generate_combined_regions.  none: the result is None
generate_combined_regions(m, sc, vdata, fs, mks) ==
    Bind(calculate_brain_regions(m, mks), LAMBDA c :
    LET nothing == [sc |-> sc, vdata |-> vdata, none |-> TRUE, roi |-> <<>>,
                    ref |-> <<>>, roi_volume |-> NoNode, ref_volume |-> NoNode,
                    exc |-> c.exc, reads |-> 0, display |-> c.display]
    IN
    IF c.exc # "none" THEN nothing
    ELSE IF Len(c.roi) = 0 /\ Len(c.ref) = 0
    THEN [nothing EXCEPT !.display = "warning"]
    ELSE
    Bind(create_combined_volumes(m, sc, vdata, fs, c.roi, c.ref), LAMBDA v :
    [sc |-> v.sc, vdata |-> v.vdata, none |-> v.exc # "none", roi |-> c.roi,
     ref |-> c.ref, roi_volume |-> v.roi_volume, ref_volume |-> v.ref_volume,
     exc |-> v.exc, reads |-> v.reads, display |-> "none"]))

\* a removal that stops after the first node it removes
remove_specific_markups_once(mks, names) ==
    IF \E i \in 1..Len(mks) : mks[i].name \in names
    THEN LET i == CHOOSE i \in 1..Len(mks) :
                    /\ mks[i].name \in names
                    /\ \A k \in 1..(i - 1) : mks[k].name \notin names
         IN  SubSeq(mks, 1, i - 1) \o SubSeq(mks, i + 1, Len(mks))
    ELSE mks

\* MarkupManager.remove_specific_markups: the first fiducial node whose name
\* is listed is removed, and the scan starts again, until none is left
RECURSIVE remove_specific_markups(_, _)
remove_specific_markups(mks, names) ==
    IF \E i \in 1..Len(mks) : mks[i].name \in names
    THEN LET i == CHOOSE i \in 1..Len(mks) :
                    /\ mks[i].name \in names
                    /\ \A k \in 1..(i - 1) : mks[k].name \notin names
         IN  remove_specific_markups(SubSeq(mks, 1, i - 1) \o SubSeq(mks, i + 1, Len(mks)),
                                     names)
    ELSE mks

\* AtlasManager.clear_roi_ref_points
clear_roi_ref_points(mks) ==
    LET roi_ref_names == {mks[i].name : i \in
            {i \in 1..Len(mks) : StartsWith(mks[i].name, "ROI_")
                                  \/ StartsWith(mks[i].name, "Ref_")}}
    IN  IF roi_ref_names # {} THEN remove_specific_markups(mks, roi_ref_names)
        ELSE mks

----------------------------------------------------------------------------
(* Inputs of the operations *)

\* world coordinates (mm) along one axis: they round to the voxel indices
\* -1, 0 (the tie 0.5), 1, 2 and 3
WorldCoords == {-2, 1, 2, 4, 6}
WorldPoints == WorldCoords \X WorldCoords \X WorldCoords

\* the points handed to _get_regions_for_points: a name and world coordinates
RegionCoords == {<<0, 0, 0>>, <<2, 0, 0>>, <<4, 0, 0>>, <<0, 0, 4>>, <<0, -2, 0>>}
PointInputs == [name : {"ROI_01_0", "ROI_02_0"}, coordinates : RegionCoords]
PointLists == UNION {[1..n -> PointInputs] : n \in 0..MaxPoints}

\* label sets and names handed to _create_volume_from_labels
LabelInputs == Labels
VolumeNameInputs == {"ROI_Combined_AAL.seg.nrrd", "Ref_Combined_BN_Atlas_246_2mm.seg.nrrd"}

\* points handed to the alignment operations
AlignPoints == {<<0, 0, 0>>, <<0, -2, 0>>, <<2, 0, 0>>}

\* pairs of points handed to transform_acpc and transform_lr: their difference
\* lies along one axis, or is zero
AlignPairs ==
    { << <<2, 0, 0>>, <<2, -2, 0>> >>, << <<0, 0, 0>>, <<0, -2, 0>> >>,
      << <<0, 0, 0>>, <<2, 0, 0>> >>, << <<2, 0, 0>>, <<2, 0, 0>> >> }

\* the marker handed to translate_ac: None or the AC node
MarkupInputs == {NoNode, 1}

\* the marker lists handed to transform_acpc and transform_lr: empty, or the
\* four landmark nodes with the absent ones None
MarkupListInputs == {<<>>, <<1, 2, NoNode, NoNode>>}

\* the arguments of translate_ac: any point, volume and marker, and one call
\* without a volume
TranslateArgs ==
    (AlignPoints \X VolumeIds \X MarkupInputs)
        \cup {<< <<2, 0, 0>>, NoTarget, 1 >>}

\* the arguments of transform_acpc and transform_lr
TransformArgs ==
    (AlignPairs \X VolumeIds \X MarkupListInputs)
        \cup {<< << <<2, 0, 0>>, <<2, -2, 0>> >>, NoTarget, <<1, 2, NoNode, NoNode>> >>}

\* points handed to the functions of math_utils
MatrixCoords == {-2, 0, 2}
MatrixPoints == MatrixCoords \X MatrixCoords \X MatrixCoords

\* pairs of points that differ along at most one axis
MatrixPairs ==
    {pr \in MatrixPoints \X MatrixPoints :
        Cardinality({c \in 1..3 : pr[1][c] # pr[2][c]}) <= 1}

\* the landmarks in the scene when the Apply button is used: AC absent or
\* placed, PC absent, empty or placed along an axis from AC (or on it), and
\* Left absent or placed
ApplyAcPoints == {<<0, 0, 0>>, <<2, 0, 0>>}
ApplyOffsets == {<<0, -2, 0>>, <<0, 2, 0>>, <<2, 0, 0>>, <<0, 0, 2>>, <<0, 0, 0>>}
ApplyScenes ==
    LET acs == {<<>>} \cup {<<[id |-> 1, name |-> "AC", points |-> <<p>>]>> :
                                p \in ApplyAcPoints}
        pcs(ac) == {<<>>, <<[id |-> 2, name |-> "PC", points |-> <<>>]>>}
                   \cup {<<[id |-> 2, name |-> "PC",
                            points |-> << <<ac[1] + d[1], ac[2] + d[2], ac[3] + d[3]>> >>]>> :
                            d \in ApplyOffsets}
        lefts == {<<>>, <<[id |-> 3, name |-> "Left", points |-> << <<4, 0, 0>> >>]>>}
    IN  UNION {{ac \o pc \o left :
                    pc \in pcs(IF ac = <<>> THEN <<0, 0, 0>> ELSE ac[1].points[1]),
                    left \in lefts} : ac \in acs}

\* a sequence of named point lists as the fiducial nodes of a scene, the ids
\* given in scene order
RECURSIVE AsMarkups(_, _)
AsMarkups(nodes, first_id) ==
    IF nodes = <<>> THEN <<>>
    ELSE << [id |-> first_id, name |-> Head(nodes)[1], points |-> Head(nodes)[2]] >>
         \o AsMarkups(Tail(nodes), first_id + 1)

\* the landmarks in the scene when regions are computed: ROI_01 absent, empty
\* or with one or two control points, ROI_02 and Ref_01 absent or with one
\* point (on a labelled voxel, on background, or at the far end of an axis),
\* and the AC landmark absent, before them or after them
MarkerScenes ==
    LET roi1 == {<<>>} \cup {<< <<"ROI_01", pts>> >> :
                    pts \in { <<>>, << <<2, 0, 0>> >>, << <<0, 0, 0>> >>,
                              << <<2, 0, 0>>, <<2, 2, 0>> >> }}
        roi2 == {<<>>, << <<"ROI_02", << <<2, 2, 0>> >> >> >>}
        ref1 == {<<>>} \cup {<< <<"Ref_01", <<pt>> >> >> :
                    pt \in { <<2, 2, 0>>, <<0, 0, 4>>, <<4, 0, 0>> }}
        ac == << <<"AC", << <<2, 0, 0>> >> >> >>
        roles == {a \o b \o c : a \in roi1, b \in roi2, c \in ref1}
    IN  {AsMarkups(nodes, 1) :
            nodes \in roles \cup {ac \o r : r \in roles} \cup {r \o ac : r \in roles}}

----------------------------------------------------------------------------
(* MetricCalculatorLogic: asynchronous calculations.  A world w is the logic  *)
(* (l), the QProcess objects (ps), the callback invocations (log), the number *)
(* of calculations requested (n) and the value returned (ret).  Qt runs every *)
(* handler and every callback to completion on the one GUI thread.            *)

\* callback=None
NoCallback == [calc |-> 0, kind |-> "None"]

\* MetricCalculatorLogic.__init__
InitLogic ==
    [ current_process  |-> NoNode,
      async_callback   |-> NoCallback,
      async_context    |-> "None",
      process_stdout   |-> <<>>,
      process_stderr   |-> <<>>,
      last_volume_name |-> NoName ]

\* no process is tracked and nothing is buffered
Idle(l) ==
    /\ l.current_process = NoNode
    /\ l.async_callback = NoCallback
    /\ l.process_stdout = <<>>
    /\ l.process_stderr = <<>>

\* context.get("failure_message", "Process failed")
FailureMessage(context) ==
    IF context = "metric" THEN "Failed to calculate metric"
    ELSE IF context = "suvr" THEN "Failed to calculate SUVr"
    ELSE "Process failed"

BusyMessage == "Another calculation is already running. Please wait for it to finish."

\* MetricCalculatorLogic._start_async_process
start_async_process(w, callback, context) ==
    LET process == Len(w.ps) + 1 IN
    [w EXCEPT !.l = [@ EXCEPT !.current_process = process,
                              !.async_callback = callback,
                              !.async_context = context,
                              !.process_stdout = <<>>,
                              !.process_stderr = <<>>],
              !.ps = Append(@, [calc |-> callback.calc, status |-> "running",
                                connected |-> TRUE, outcome |-> {},
                                pending |-> {}]),
              !.ret = TRUE]

RECURSIVE calculate_metric_async(_, _, _, _, _)

\* callback(success, result_text, error_message): the invocation is logged with
\* whether the logic was idle when it ran; a callback of kind "chain" then
\* requests the next calculation from inside the callback
InvokeCallback(w, callback, success, result_text, error_message) ==
    LET w1 == [w EXCEPT !.log = Append(@, [calc |-> callback.calc, success |-> success,
                                           result_text |-> result_text,
                                           error_message |-> error_message,
                                           idle |-> Idle(w.l)])]
    IN  IF callback.kind = "chain" /\ w1.n < MaxCalcs
        THEN calculate_metric_async([w1 EXCEPT !.n = @ + 1], TRUE, TRUE, TRUE,
                                    [calc |-> w1.n + 1, kind |-> "noop"])
        ELSE w1

\* a finalize that invokes the callback before it cleans up
finalize_async_callback_late_reset(w, success, result_text, error_message, callback_override) ==
    LET callback == IF callback_override # NoCallback THEN callback_override
                    ELSE w.l.async_callback
        w1 == IF callback # NoCallback
              THEN InvokeCallback(w, callback, success, result_text, error_message)
              ELSE w
    IN  [w1 EXCEPT !.l = [@ EXCEPT !.current_process = NoNode,
                                   !.async_callback = NoCallback,
                                   !.async_context = "None",
                                   !.process_stdout = <<>>,
                                   !.process_stderr = <<>>],
                   !.ret = success]

\* MetricCalculatorLogic._finalize_async_callback: the tracked process is
\* disconnected from the handlers and deleted, the logic is reset, then the
\* callback (the override, else the stored one) is invoked
finalize_async_callback(w, success, result_text, error_message, callback_override) ==
    LET callback == IF callback_override # NoCallback THEN callback_override
                    ELSE w.l.async_callback
        process == w.l.current_process
        w1 == [w EXCEPT !.ps = IF process # NoNode
                               THEN [@ EXCEPT ![process].connected = FALSE,
                                              ![process].status = "deleted"]
                               ELSE @,
                        !.l = [@ EXCEPT !.current_process = NoNode,
                                        !.async_callback = NoCallback,
                                        !.async_context = "None",
                                        !.process_stdout = <<>>,
                                        !.process_stderr = <<>>]]
        w2 == IF callback # NoCallback
              THEN InvokeCallback(w1, callback, success, result_text, error_message)
              ELSE w1
    IN  [w2 EXCEPT !.ret = success]

\* the rejection of a call made while a calculation runs
RejectBusy(w, callback) ==
    [(IF callback # NoCallback
      THEN InvokeCallback(w, callback, FALSE, <<>>, BusyMessage)
      ELSE w) EXCEPT !.ret = FALSE]

\* a calculate_metric_async that starts a process while another one runs
calculate_metric_async_no_busy_test(w, input_ok, metric_ok, save_ok, callback) ==
    IF ~input_ok
    THEN finalize_async_callback(w, FALSE, <<>>, "Invalid input node", callback)
    ELSE IF ~metric_ok
    THEN finalize_async_callback(w, FALSE, <<>>, "Unsupported metric type", callback)
    ELSE start_async_process([w EXCEPT !.l.last_volume_name = "PET"], callback, "metric")

\* MetricCalculatorLogic.calculate_metric_async.  input_ok: input_node is a
\* node; metric_ok: metric_type is in METRIC_SUBCOMMANDS; save_ok: saveNode
\* and _build_command raise nothing
calculate_metric_async(w, input_ok, metric_ok, save_ok, callback) ==
    IF ~input_ok
    THEN finalize_async_callback(w, FALSE, <<>>, "Invalid input node", callback)
    ELSE IF ~metric_ok
    THEN finalize_async_callback(w, FALSE, <<>>, "Unsupported metric type", callback)
    ELSE IF w.l.current_process # NoNode
    THEN RejectBusy(w, callback)
    ELSE
    LET w1 == [w EXCEPT !.l.last_volume_name = "PET"] IN
    IF ~save_ok
    THEN finalize_async_callback(w1, FALSE, <<>>, "Error during metric calculation",
                                 callback)
    ELSE start_async_process(w1, callback, "metric")

\* MetricCalculatorLogic.calculate_suvr_async
calculate_suvr_async(w, input_ok, roi_ok, ref_ok, save_ok, callback) ==
    IF ~input_ok
    THEN finalize_async_callback(w, FALSE, <<>>, "Invalid input node", callback)
    ELSE IF ~roi_ok
    THEN finalize_async_callback(w, FALSE, <<>>, "Invalid ROI mask node", callback)
    ELSE IF ~ref_ok
    THEN finalize_async_callback(w, FALSE, <<>>, "Invalid reference mask node", callback)
    ELSE IF w.l.current_process # NoNode
    THEN RejectBusy(w, callback)
    ELSE
    LET w1 == [w EXCEPT !.l.last_volume_name = "PET"] IN
    IF ~save_ok
    THEN finalize_async_callback(w1, FALSE, <<>>, "Error during SUVr calculation",
                                 callback)
    ELSE start_async_process(w1, callback, "suvr")

\* MetricCalculatorLogic._handle_async_stdout
handle_async_stdout(w) ==
    IF w.l.current_process = NoNode THEN w
    ELSE [w EXCEPT !.l.process_stdout = Append(@, "out")]

\* MetricCalculatorLogic._handle_async_stderr
handle_async_stderr(w) ==
    IF w.l.current_process = NoNode THEN w
    ELSE [w EXCEPT !.l.process_stderr = Append(@, "err")]

\* MetricCalculatorLogic._on_async_finished.  exit_ok: NormalExit with code 0;
\* result_text is kept as the chunks of output that _polish_output is given
on_async_finished(w, exit_ok) ==
    IF w.l.current_process = NoNode THEN w
    ELSE IF exit_ok
    THEN finalize_async_callback(w, TRUE, w.l.process_stdout, "", NoCallback)
    ELSE finalize_async_callback(w, FALSE, <<>>, FailureMessage(w.l.async_context),
                                 NoCallback)

\* MetricCalculatorLogic._on_async_error
on_async_error(w) ==
    IF w.l.current_process = NoNode THEN w
    ELSE finalize_async_callback(w, FALSE, <<>>,
                                 FailureMessage(w.l.async_context) \o "\nprocess error",
                                 NoCallback)

\* the signals a QProcess emits when it ends: a normal exit, a failing exit, a
\* failure to start (errorOccurred alone), a crash (errorOccurred and finished)
ProcessOutcomes ==
    { {"finished_ok"}, {"finished_failed"}, {"errorOccurred"},
      {"errorOccurred", "finished_failed"} }

\* the world the variables hold
World ==
    [l |-> metric, ps |-> processes, log |-> callbacks, n |-> ccall.n, ret |-> FALSE]

\* the record of an asynchronous calculation call
CalcCallRecord(op, valid, callback, w) ==
    [ op |-> op, valid |-> valid, callback |-> callback, pre |-> metric,
      pre_processes |-> processes, pre_callbacks |-> callbacks,
      n |-> w.n, ret |-> w.ret ]

\* the record of a step that is no call: a signal of a process, or its end
SignalStep(op, w) ==
    ccall' = [ op |-> op, valid |-> FALSE, callback |-> NoCallback, pre |-> metric,
               pre_processes |-> processes, pre_callbacks |-> callbacks,
               n |-> w.n, ret |-> FALSE ]

SetWorld(w) ==
    /\ metric' = w.l
    /\ processes' = w.ps
    /\ callbacks' = w.log

InitCalc ==
    /\ metric = InitLogic
    /\ processes = <<>>
    /\ callbacks = <<>>
    /\ ccall = [ op |-> "__init__", valid |-> FALSE, callback |-> NoCallback,
                 pre |-> InitLogic, pre_processes |-> <<>>, pre_callbacks |-> <<>>,
                 n |-> 0, ret |-> FALSE ]

\* the callbacks handed to the calls: one that only records the result and one
\* that requests the next calculation
CallbackKinds == {"noop", "chain"}

CalculateMetricAsync ==
    /\ ccall.n < MaxCalcs
    /\ \E input_ok \in BOOLEAN, metric_ok \in BOOLEAN, save_ok \in BOOLEAN,
          kind \in CallbackKinds :
        LET callback == [calc |-> ccall.n + 1, kind |-> kind] IN
        \E w \in {calculate_metric_async([World EXCEPT !.n = @ + 1], input_ok,
                                         metric_ok, save_ok, callback)} :
            /\ SetWorld(w)
            /\ ccall' = CalcCallRecord("calculate_metric_async",
                                       input_ok /\ metric_ok, callback, w)
    /\ UNCHANGED <<atlas_vars, env_vars, call, align_vars, mcall, rm>>

CalculateSuvrAsync ==
    /\ ccall.n < MaxCalcs
    /\ \E input_ok \in BOOLEAN, roi_ok \in BOOLEAN, ref_ok \in BOOLEAN,
          save_ok \in BOOLEAN :
        LET callback == [calc |-> ccall.n + 1, kind |-> "noop"] IN
        \E w \in {calculate_suvr_async([World EXCEPT !.n = @ + 1], input_ok, roi_ok,
                                       ref_ok, save_ok, callback)} :
            /\ SetWorld(w)
            /\ ccall' = CalcCallRecord("calculate_suvr_async",
                                       input_ok /\ roi_ok /\ ref_ok, callback, w)
    /\ UNCHANGED <<atlas_vars, env_vars, call, align_vars, mcall, rm>>

\* readyReadStandardOutput of a running process that is still connected
ReadyReadStandardOutput ==
    /\ \E p \in 1..Len(processes) :
        /\ processes[p].status = "running"
        /\ processes[p].connected
        /\ Len(metric.process_stdout) < MaxChunks
        /\ SetWorld(handle_async_stdout(World))
    /\ SignalStep("readyReadStandardOutput", World)
    /\ UNCHANGED <<atlas_vars, env_vars, call, align_vars, mcall, rm>>

\* readyReadStandardError of a running process that is still connected
ReadyReadStandardError ==
    /\ \E p \in 1..Len(processes) :
        /\ processes[p].status = "running"
        /\ processes[p].connected
        /\ Len(metric.process_stderr) < MaxChunks
        /\ SetWorld(handle_async_stderr(World))
    /\ SignalStep("readyReadStandardError", World)
    /\ UNCHANGED <<atlas_vars, env_vars, call, align_vars, mcall, rm>>

\* a running external process ends: its signals are queued
ProcessEnds ==
    /\ \E p \in 1..Len(processes), outcome \in ProcessOutcomes :
        /\ processes[p].status = "running"
        /\ processes' = [processes EXCEPT ![p].status = "ended",
                                          ![p].outcome = outcome,
                                          ![p].pending = outcome]
    /\ SignalStep("ended", World)
    /\ UNCHANGED <<atlas_vars, env_vars, call, align_vars, mcall, metric, callbacks, rm>>

\* the world once the queued signal of process p has left the queue
Emitted(p, signal) == [World EXCEPT !.ps[p].pending = @ \ {signal}]

\* one queued signal of a process is emitted: the connected handler runs; a
\* disconnected process reaches no handler
EmitSignal ==
    /\ \E p \in 1..Len(processes) : \E signal \in processes[p].pending :
        \E w \in {IF ~processes[p].connected THEN Emitted(p, signal)
                  ELSE IF signal = "errorOccurred" THEN on_async_error(Emitted(p, signal))
                  ELSE on_async_finished(Emitted(p, signal), signal = "finished_ok")} :
            /\ SetWorld(w)
            /\ SignalStep(signal, w)
    /\ UNCHANGED <<atlas_vars, env_vars, call, align_vars, mcall, rm>>

----------------------------------------------------------------------------
(* MarkupManager.remove_specific_markups as the loop it is, and the point    *)
(* buttons of AtlasManager                                                   *)

InitRm ==
    rm = [ pc |-> "idle", names |-> {}, no_more |-> FALSE, i |-> 0, count |-> 0,
           pre |-> <<>> ]

\* slicer.mrmlScene.RemoveNode of the i-th fiducial node (0-based)
RemoveNth(mks, i) == SubSeq(mks, 1, i) \o SubSeq(mks, i + 2, Len(mks))

\* a loop that does not ask for another scan after it removed a node
remove_step_no_rescan(r, mks) ==
    IF r.pc = "while"
    THEN [r |-> IF r.no_more THEN [r EXCEPT !.pc = "done"]
                ELSE [r EXCEPT !.pc = "for", !.no_more = TRUE, !.i = 0,
                               !.count = Len(mks)],
          mks |-> mks]
    ELSE IF r.i >= r.count
    THEN [r |-> [r EXCEPT !.pc = "while"], mks |-> mks]
    ELSE IF mks[r.i + 1].name \in r.names
    THEN [r |-> [r EXCEPT !.pc = "while"], mks |-> RemoveNth(mks, r.i)]
    ELSE [r |-> [r EXCEPT !.i = @ + 1], mks |-> mks]

\* one step of remove_specific_markups.  pc "while": the test of the while
\* loop, then no_more = True and the range of the for loop; pc "for": one
\* iteration of the for loop, which on a listed name removes the node, sets
\* no_more = False and breaks
remove_step(r, mks) ==
    IF r.pc = "while"
    THEN [r |-> IF r.no_more THEN [r EXCEPT !.pc = "done"]
                ELSE [r EXCEPT !.pc = "for", !.no_more = TRUE, !.i = 0,
                               !.count = Len(mks)],
          mks |-> mks]
    ELSE IF r.i >= r.count
    THEN [r |-> [r EXCEPT !.pc = "while"], mks |-> mks]
    ELSE IF mks[r.i + 1].name \in r.names
    THEN [r |-> [r EXCEPT !.pc = "while", !.no_more = FALSE],
          mks |-> RemoveNth(mks, r.i)]
    ELSE [r |-> [r EXCEPT !.i = @ + 1], mks |-> mks]

\* names of the fiducial nodes of a scene, and the scenes of up to MaxNodes
\* nodes over them, several nodes of one name included
RemoveNames == {"AC", "PC", "TestPoint"}
RemoveScenes ==
    UNION {{[n \in 1..len |-> [id |-> n, name |-> names[n],
                              points |-> << <<2, 0, 0>> >>]] :
                names \in [1..len -> RemoveNames]} : len \in 0..MaxNodes}

\* the call of remove_specific_markups(names)
RemoveSpecificMarkups ==
    /\ rm.pc = "idle"
    /\ \E names \in SUBSET RemoveNames :
        rm' = [ pc |-> "while", names |-> names, no_more |-> FALSE, i |-> 0,
                count |-> 0, pre |-> markups ]
    /\ UNCHANGED <<atlas_vars, env_vars, call, align_vars, mcall, calc_vars>>

RemoveStep ==
    /\ rm.pc \in {"while", "for"}
    /\ \E s \in {remove_step(rm, markups)} :
        /\ rm' = s.r
        /\ markups' = s.mks
    /\ UNCHANGED <<atlas_vars, env_vars, call, mcall, calc_vars>>
    /\ UNCHANGED <<transform_table, transforms, volume_geom, n_align, acall>>

\* the id of a node added to the scene
NewMarkupId(mks) == NewNodeId(mks)

\* AtlasManager._add_fiducial_point: a new, empty fiducial node of that name
add_fiducial_point(mks, name) ==
    Append(mks, [id |-> NewMarkupId(mks), name |-> name, points |-> <<>>])

\* f"{point_index:02d}" for an index below ten
TwoDigits(point_index) == "0" \o Digits[point_index + 1]

\* AtlasManager.add_roi_point
add_roi_point(mks) ==
    add_fiducial_point(mks, "ROI_" \o TwoDigits(Len(get_points_by_prefix(mks, "ROI_")) + 1))

\* AtlasManager.add_ref_point
add_ref_point(mks) ==
    add_fiducial_point(mks, "Ref_" \o TwoDigits(Len(get_points_by_prefix(mks, "Ref_")) + 1))

\* the control points in the nodes of the scene
RECURSIVE PlacedPoints(_)
PlacedPoints(mks) ==
    IF mks = <<>> THEN 0 ELSE Len(Head(mks).points) + PlacedPoints(Tail(mks))

AddRoiPoint ==
    /\ Len(markups) < MaxNodes
    /\ markups' = add_roi_point(markups)
    /\ UNCHANGED <<atlas_vars, env_vars, call, mcall, ext_vars>>
    /\ UNCHANGED <<transform_table, transforms, volume_geom, n_align, acall>>

AddRefPoint ==
    /\ Len(markups) < MaxNodes
    /\ markups' = add_ref_point(markups)
    /\ UNCHANGED <<atlas_vars, env_vars, call, mcall, ext_vars>>
    /\ UNCHANGED <<transform_table, transforms, volume_geom, n_align, acall>>

\* the user places a control point into one of the created nodes
PlaceControlPoint ==
    /\ PlacedPoints(markups) < MaxPlaced
    /\ \E n \in 1..Len(markups), point \in {<<2, 0, 0>>, <<2, 2, 0>>} :
        markups' = [markups EXCEPT ![n].points = Append(@, point)]
    /\ UNCHANGED <<atlas_vars, env_vars, call, mcall, ext_vars>>
    /\ UNCHANGED <<transform_table, transforms, volume_geom, n_align, acall>>

----------------------------------------------------------------------------
(* The Apply-LR handler of the widget *)

\* localizerWidget.onApplyLRButton: the alignment it runs, with its arguments,
\* and the state after it
onApplyLRButton(a, inputVolume) ==
    LET leftNode == find_markup_node_by_name(a.markups, "Left")
        rightNode == find_markup_node_by_name(a.markups, "Right")
        leftCoord == get_point_ras(a.markups, leftNode)
        rightCoord == get_point_ras(a.markups, rightNode)
        acNode == find_markup_node_by_name(a.markups, "AC")
        pcNode == find_markup_node_by_name(a.markups, "PC")
    IN
    IF leftCoord # NoValue /\ rightCoord # NoValue
    THEN LET nodes == <<leftNode, rightNode, acNode, pcNode>> IN
         transform_lr(a, leftCoord, rightCoord, inputVolume, nodes)
            @@ [op |-> "transform_lr", coord |-> leftCoord, coord2 |-> rightCoord,
                markup_nodes |-> nodes]
    ELSE [a |-> a, exc |-> "none", op |-> "none", coord |-> <<0, 0, 0>>,
          coord2 |-> <<0, 0, 0>>, markup_nodes |-> <<>>]

\* the landmarks in the scene when the two buttons are used: each of AC, PC,
\* Left and Right absent or placed
ButtonScenes ==
    LET one(name, point) == {<<>>, << <<name, <<point>> >> >>} IN
    {AsMarkups(ac \o pc \o left \o right, 1) :
        ac \in one("AC", <<2, 0, 0>>), pc \in one("PC", <<2, -2, 0>>),
        left \in one("Left", <<2, 0, 2>>), right \in one("Right", <<2, 0, -2>>)}

----------------------------------------------------------------------------
(* Initial state *)

InitAtlas ==
    /\ current_atlas_name = InitMgr.current_atlas_name
    /\ atlas_path = InitMgr.atlas_path
    /\ atlas_node = InitMgr.atlas_node
    /\ atlas_node_arr = InitMgr.atlas_node_arr
    /\ ras_to_ijk = InitMgr.ras_to_ijk

InitEnv ==
    /\ scene = <<>>
    /\ volume_data = <<>>
    /\ files = AVAILABLE_ATLASES
    /\ file_grid \in FileGrids

\* the record of an operation: its name, arguments (name, point, points,
\* labels, each with a default when the operation takes none), the state it
\* started from, what it returned or raised, how often it read the atlas file
\* as a volume, and the branch of load_atlas that returned
CallRecord(op, m, sc, fs) ==
    [ op |-> op, name |-> NoName, point |-> <<>>, points |-> <<>>, labels |-> {},
      pre |-> m, pre_scene |-> sc, pre_files |-> fs,
      ret_bool |-> FALSE, ret_node |-> NoNode, ret_voxel |-> <<>>,
      ret_regions |-> <<>>, exc |-> "none", reads |-> 0, branch |-> "none",
      pre_markups |-> markups, ret_points |-> <<>>, ret_none |-> FALSE,
      ret_ref_regions |-> <<>>, ret_roi_volume |-> NoNode, ret_ref_volume |-> NoNode,
      display |-> "none" ]

InitCall == call = CallRecord("__init__", InitMgr, <<>>, files)

\* the record of an alignment operation: its name, arguments, the state it
\* started from, the exception it raised, and the operation before it
AlignCallRecord(op, coord, coord2, target, markup_nodes, pre, exc, before) ==
    LET baked == op \in {"translate_ac", "transform_acpc", "transform_lr"}
                 /\ target # NoTarget /\ exc = "none"
        passed == {markup_nodes[k] : k \in 1..Len(markup_nodes)} \ {NoNode}
    IN
    [ op |-> op, coord |-> coord, coord2 |-> coord2, target |-> target,
      markup_nodes |-> markup_nodes, pre |-> pre, exc |-> exc,
      prev_op |-> before.op, prev_coord |-> before.coord, prev_coord2 |-> before.coord2,
      prev_target |-> before.target, prev_markup_nodes |-> before.markup_nodes,
      \* the volumes aligned so far
      aligned |-> IF baked THEN before.aligned \cup {target} ELSE before.aligned,
      \* the markers passed to every alignment so far
      always_markers |-> IF baked THEN before.always_markers \cap passed
                         ELSE before.always_markers ]

\* the AC and PC landmarks the user has placed
DefaultMarkups ==
    << [id |-> 1, name |-> "AC", points |-> << <<2, 0, 0>> >>],
       [id |-> 2, name |-> "PC", points |-> << <<2, -2, 0>> >>] >>

\* ImageAlignmentLogic.__init__ and two input volumes with identity geometry
InitAlignLogic ==
    /\ transform_table = [v \in VolumeIds |-> NoNode]
    /\ transforms = <<>>
    /\ volume_geom = [v \in VolumeIds |-> Identity4]
    /\ n_align = 0
    /\ acall = AlignCallRecord("__init__", <<0, 0, 0>>, <<0, 0, 0>>, NoTarget, <<>>,
                               AlignState, "none",
                               [op |-> "none", coord |-> <<0, 0, 0>>,
                                coord2 |-> <<0, 0, 0>>,
                                target |-> NoTarget, markup_nodes |-> <<>>,
                                aligned |-> {},
                                always_markers |-> {markups[n].id : n \in 1..Len(markups)}])

InitAlign ==
    /\ markups = DefaultMarkups
    /\ InitAlignLogic

\* no math_utils function applied yet
InitMath ==
    mcall = [ op |-> "none", ac |-> <<0, 0, 0>>, bc |-> <<0, 0, 0>>,
              matrix |-> Identity4 ]

\* no calculation requested, no removal under way
InitExt == InitCalc /\ InitRm

Init ==
    /\ InitAtlas
    /\ InitEnv
    /\ InitAlign
    /\ InitCall
    /\ InitMath
    /\ InitExt

----------------------------------------------------------------------------
(* Operations of AtlasManager *)

SetMgr(m) ==
    /\ current_atlas_name' = m.current_atlas_name
    /\ atlas_path' = m.atlas_path
    /\ atlas_node' = m.atlas_node
    /\ atlas_node_arr' = m.atlas_node_arr
    /\ ras_to_ijk' = m.ras_to_ijk

\* the operation op has just run, with these arguments and results
Called(op, fields) ==
    call' = fields @@ CallRecord(op, MgrState, scene, files)

SetAtlas ==
    \E atlas_name \in AtlasNameInputs :
        LET r == set_atlas(MgrState, atlas_name) IN
        /\ SetMgr(r.m)
        /\ Called("set_atlas", [name |-> atlas_name, ret_bool |-> r.ret])
        /\ UNCHANGED <<env_vars, align_vars, mcall, ext_vars>>

LoadAtlas ==
    \E atlas_name \in AtlasNameInputs \cup {NoName}, seg_ok \in BOOLEAN :
        LET r == load_atlas(MgrState, scene, files, file_grid, atlas_name, seg_ok) IN
        /\ SetMgr(r.m)
        /\ scene' = r.sc
        /\ Called("load_atlas", [name |-> atlas_name, ret_node |-> r.ret,
                                 reads |-> r.reads, branch |-> r.branch])
        /\ UNCHANGED <<volume_data, files, file_grid, align_vars, mcall, ext_vars>>

ClearCurrentAtlas ==
    /\ SetMgr(clear_current_atlas(MgrState))
    /\ Called("clear_current_atlas", [exc |-> "none"])
    /\ UNCHANGED <<env_vars, align_vars, mcall, ext_vars>>

\* the environment adds or removes an atlas file under templates/
FileChange ==
    \E f \in AVAILABLE_ATLASES :
        /\ files' = IF f \in files THEN files \ {f} ELSE files \cup {f}
        /\ UNCHANGED <<atlas_vars, scene, volume_data, file_grid, call, align_vars, mcall,
                       ext_vars>>

RasToVoxel ==
    \E ras_coords \in WorldPoints :
        LET r == ras_to_voxel(MgrState, ras_coords) IN
        /\ Called("_ras_to_voxel", [point |-> ras_coords, ret_voxel |-> r.ret, exc |-> r.exc])
        /\ UNCHANGED <<atlas_vars, env_vars, align_vars, mcall, ext_vars>>

GetRegionsForPoints ==
    \E points \in PointLists :
        LET r == get_regions_for_points(MgrState, points) IN
        /\ Called("_get_regions_for_points",
                  [points |-> points, ret_regions |-> r.ret, exc |-> r.exc])
        /\ UNCHANGED <<atlas_vars, env_vars, align_vars, mcall, ext_vars>>

ScalarVolumes(sc) == NodesOfClass(sc, "vtkMRMLScalarVolumeNode")

\* the voxel data of scalar volume node id
VolumeOf(vdata, id) == vdata[CHOOSE n \in 1..Len(vdata) : vdata[n].id = id]

CreateVolumeFromLabels ==
    \E labels \in SUBSET LabelInputs, volume_name \in VolumeNameInputs :
        LET r == create_volume_from_labels(MgrState, scene, volume_data, files,
                                           labels, volume_name) IN
        /\ labels # {} => Len(ScalarVolumes(scene)) < MaxVolumes
        /\ scene' = r.sc
        /\ volume_data' = r.vdata
        /\ Called("_create_volume_from_labels",
                  [labels |-> labels, name |-> volume_name, ret_node |-> r.ret,
                   exc |-> r.exc, reads |-> r.reads])
        /\ UNCHANGED <<atlas_vars, files, file_grid, align_vars, mcall, ext_vars>>

GetPointsByPrefix ==
    /\ \E prefix \in {"ROI_", "Ref_"} :
        Called("_get_points_by_prefix",
               [name |-> prefix, ret_points |-> get_points_by_prefix(markups, prefix)])
    /\ UNCHANGED <<atlas_vars, env_vars, align_vars, mcall, ext_vars>>

CalculateBrainRegions ==
    /\ \E r \in {calculate_brain_regions(MgrState, markups)} :
        Called("calculate_brain_regions",
               [ret_none |-> r.none, ret_regions |-> r.roi, ret_ref_regions |-> r.ref,
                exc |-> r.exc, display |-> r.display])
    /\ UNCHANGED <<atlas_vars, env_vars, align_vars, mcall, ext_vars>>

GenerateCombinedRegions ==
    /\ Len(ScalarVolumes(scene)) < MaxVolumes
    /\ \E r \in {generate_combined_regions(MgrState, scene, volume_data, files,
                                            markups)} :
        /\ scene' = r.sc
        /\ volume_data' = r.vdata
        /\ Called("generate_combined_regions",
                  [ret_none |-> r.none, ret_regions |-> r.roi,
                   ret_ref_regions |-> r.ref, ret_roi_volume |-> r.roi_volume,
                   ret_ref_volume |-> r.ref_volume, exc |-> r.exc,
                   reads |-> r.reads, display |-> r.display])
    /\ UNCHANGED <<atlas_vars, files, file_grid, align_vars, mcall, ext_vars>>

ClearRoiRefPoints ==
    /\ markups' = clear_roi_ref_points(markups)
    /\ Called("clear_roi_ref_points", <<>>)
    /\ UNCHANGED <<atlas_vars, env_vars, mcall, ext_vars>>
    /\ UNCHANGED <<transform_table, transforms, volume_geom, n_align, acall>>

----------------------------------------------------------------------------
(* Operations of ImageAlignmentLogic *)

SetAlign(a) ==
    /\ transform_table' = a.transform_table
    /\ transforms' = a.transforms
    /\ volume_geom' = a.volume_geom
    /\ markups' = a.markups
    /\ n_align' = n_align + 1

AlignCalled(op, coord, coord2, target, markup_nodes, exc) ==
    acall' = AlignCallRecord(op, coord, coord2, target, markup_nodes, AlignState,
                             exc, acall)

TranslateAc ==
    /\ n_align < MaxAlignCalls
    /\ \E args \in TranslateArgs :
        LET ac_coord == args[1]
            target_node == args[2]
            markup_node == args[3]
            r == translate_ac(AlignState, ac_coord, target_node, markup_node)
        IN
        /\ SetAlign(r.a)
        /\ AlignCalled("translate_ac", ac_coord, <<0, 0, 0>>, target_node,
                       <<markup_node>>, r.exc)
    /\ UNCHANGED <<atlas_vars, env_vars, call, mcall, ext_vars>>

TransformAcpc ==
    /\ n_align < MaxAlignCalls
    /\ \E args \in TransformArgs :
        LET pr == args[1]
            target_node == args[2]
            markup_nodes == args[3]
            r == transform_acpc(AlignState, pr[1], pr[2], target_node, markup_nodes)
        IN
        /\ SetAlign(r.a)
        /\ AlignCalled("transform_acpc", pr[1], pr[2], target_node, markup_nodes, r.exc)
    /\ UNCHANGED <<atlas_vars, env_vars, call, mcall, ext_vars>>

TransformLr ==
    /\ n_align < MaxAlignCalls
    /\ \E args \in TransformArgs :
        LET pr == args[1]
            target_node == args[2]
            markup_nodes == args[3]
            r == transform_lr(AlignState, pr[1], pr[2], target_node, markup_nodes)
        IN
        /\ SetAlign(r.a)
        /\ AlignCalled("transform_lr", pr[1], pr[2], target_node, markup_nodes, r.exc)
    /\ UNCHANGED <<atlas_vars, env_vars, call, mcall, ext_vars>>

\* localizerWidget.onApplyButton with the input volume of the parameter node
OnApplyButton ==
    /\ n_align < MaxAlignCalls
    /\ \E inputVolume \in VolumeIds \cup {NoTarget} :
        LET r == onApplyButton(AlignState, inputVolume) IN
        /\ SetAlign(r.a)
        /\ AlignCalled(r.op, r.coord, r.coord2, inputVolume, r.markup_nodes, r.exc)
    /\ UNCHANGED <<atlas_vars, env_vars, call, mcall, ext_vars>>

----------------------------------------------------------------------------
(* Functions of math_utils applied on their own *)

CreateAffineMatrix ==
    /\ \E pr \in MatrixPairs :
        mcall' = [ op |-> "create_affine_matrix", ac |-> pr[1], bc |-> pr[2],
                   matrix |-> create_affine_matrix(pr[1], pr[2]) ]
    /\ UNCHANGED <<atlas_vars, env_vars, call, align_vars, ext_vars>>

CreateTranslationMatrix ==
    /\ \E translation \in MatrixPoints :
        mcall' = [ op |-> "create_translation_matrix", ac |-> translation,
                   bc |-> <<0, 0, 0>>,
                   matrix |-> create_translation_matrix(translation) ]
    /\ UNCHANGED <<atlas_vars, env_vars, call, align_vars, ext_vars>>

----------------------------------------------------------------------------
(* Specifications *)

\* selecting, loading and clearing atlases while atlas files come and go
AtlasNext == SetAtlas \/ LoadAtlas \/ ClearCurrentAtlas \/ FileChange
SpecAtlas == Init /\ [][AtlasNext]_vars

\* world points mapped into the loaded atlas
VoxelNext == LoadAtlas \/ RasToVoxel
SpecVoxel == Init /\ [][VoxelNext]_vars

\* lists of points mapped to region hits
RegionsNext == LoadAtlas \/ GetRegionsForPoints
SpecRegions == Init /\ [][RegionsNext]_vars

\* combined masks built from label sets, by a manager that is fresh or has
\* loaded one atlas
InitMask ==
    /\ files = AVAILABLE_ATLASES
    /\ file_grid \in FileGrids
    /\ volume_data = <<>>
    /\ InitAlign
    /\ \E atlas_name \in AVAILABLE_ATLASES \cup {NoName} :
        LET r == load_atlas(InitMgr, <<>>, files, file_grid, atlas_name, TRUE) IN
        /\ current_atlas_name = r.m.current_atlas_name
        /\ atlas_path = r.m.atlas_path
        /\ atlas_node = r.m.atlas_node
        /\ atlas_node_arr = r.m.atlas_node_arr
        /\ ras_to_ijk = r.m.ras_to_ijk
        /\ scene = r.sc
        /\ call = [name |-> atlas_name, ret_node |-> r.ret, reads |-> r.reads,
                   branch |-> r.branch]
                  @@ CallRecord("load_atlas", InitMgr, <<>>, files)
    /\ InitMath
    /\ InitExt

MaskNext == CreateVolumeFromLabels
SpecMask == InitMask /\ [][MaskNext]_vars

\* regions computed from the landmarks of a scene, by a manager that is fresh,
\* has selected the AAL atlas, or has loaded it
InitMarkers ==
    /\ files = AVAILABLE_ATLASES
    /\ file_grid \in FileGrids
    /\ volume_data = <<>>
    /\ markups \in MarkerScenes
    /\ \/ \E atlas_name \in {"AAL.seg.nrrd", NoName} :
            LET r == load_atlas(InitMgr, <<>>, files, file_grid, atlas_name, TRUE) IN
            /\ current_atlas_name = r.m.current_atlas_name
            /\ atlas_path = r.m.atlas_path
            /\ atlas_node = r.m.atlas_node
            /\ atlas_node_arr = r.m.atlas_node_arr
            /\ ras_to_ijk = r.m.ras_to_ijk
            /\ scene = r.sc
            /\ call = [name |-> atlas_name, ret_node |-> r.ret, reads |-> r.reads,
                       branch |-> r.branch]
                      @@ CallRecord("load_atlas", InitMgr, <<>>, files)
       \/ LET r == set_atlas(InitMgr, "AAL.seg.nrrd") IN
            /\ current_atlas_name = r.m.current_atlas_name
            /\ atlas_path = r.m.atlas_path
            /\ atlas_node = r.m.atlas_node
            /\ atlas_node_arr = r.m.atlas_node_arr
            /\ ras_to_ijk = r.m.ras_to_ijk
            /\ scene = <<>>
            /\ call = [name |-> "AAL.seg.nrrd", ret_bool |-> r.ret]
                      @@ CallRecord("set_atlas", InitMgr, <<>>, files)
    /\ InitAlignLogic
    /\ InitMath
    /\ InitExt

MarkersNext ==
    \/ GetPointsByPrefix
    \/ CalculateBrainRegions
    \/ GenerateCombinedRegions
    \/ ClearRoiRefPoints
SpecMarkers == InitMarkers /\ [][MarkersNext]_vars

\* the Apply button used on the landmarks as they are in the scene
InitApply ==
    /\ InitAtlas
    /\ InitEnv
    /\ file_grid = <<2, 2, 2>>
    /\ markups \in ApplyScenes
    /\ InitCall
    /\ InitAlignLogic
    /\ InitMath
    /\ InitExt

ApplyNext == OnApplyButton
SpecApply == InitApply /\ [][ApplyNext]_vars

\* alignment operations on the input volumes and landmarks
AlignNext == TranslateAc \/ TransformAcpc \/ TransformLr
InitAligned == Init /\ file_grid = <<2, 2, 2>>
SpecAlign == InitAligned /\ [][AlignNext]_vars

\* the functions of math_utils on bounded inputs
MathNext == CreateAffineMatrix \/ CreateTranslationMatrix
SpecMath == InitAligned /\ [][MathNext]_vars

\* localizerWidget.onApplyLRButton with the input volume of the parameter node
OnApplyLRButton ==
    /\ n_align < MaxAlignCalls
    /\ \E inputVolume \in VolumeIds :
        \E r \in {onApplyLRButton(AlignState, inputVolume)} :
            /\ SetAlign(r.a)
            /\ AlignCalled(r.op, r.coord, r.coord2, inputVolume, r.markup_nodes, r.exc)
    /\ UNCHANGED <<atlas_vars, env_vars, call, mcall, ext_vars>>

\* the two buttons used on the landmarks as they are in the scene
InitButtons ==
    /\ InitAtlas
    /\ InitEnv
    /\ file_grid = <<2, 2, 2>>
    /\ markups \in ButtonScenes
    /\ InitCall
    /\ InitAlignLogic
    /\ InitMath
    /\ InitExt

ButtonsNext == OnApplyButton \/ OnApplyLRButton
SpecButtons == InitButtons /\ [][ButtonsNext]_vars

\* asynchronous calculations, the signals of their processes delivered in any
\* order
CalcNext ==
    \/ CalculateMetricAsync
    \/ CalculateSuvrAsync
    \/ ReadyReadStandardOutput
    \/ ReadyReadStandardError
    \/ ProcessEnds
    \/ EmitSignal
SpecCalc == InitAligned /\ [][CalcNext]_vars

\* every external process ends, and the event loop emits every queued signal
SpecCalcLive == SpecCalc /\ WF_vars(ProcessEnds) /\ WF_vars(EmitSignal)

\* remove_specific_markups run on a scene; the loop, once entered, goes on
InitRemove ==
    /\ InitAtlas
    /\ InitEnv
    /\ file_grid = <<2, 2, 2>>
    /\ markups \in RemoveScenes
    /\ InitCall
    /\ InitAlignLogic
    /\ InitMath
    /\ InitExt

RemoveNext == RemoveSpecificMarkups \/ RemoveStep
SpecRemove == InitRemove /\ [][RemoveNext]_vars /\ WF_vars(RemoveStep)

\* a scene built with the ROI and Ref buttons, starting without landmarks
InitLandmarks ==
    /\ InitAtlas
    /\ InitEnv
    /\ file_grid = <<2, 2, 2>>
    /\ markups = <<>>
    /\ InitCall
    /\ InitAlignLogic
    /\ InitMath
    /\ InitExt

LandmarksNext == AddRoiPoint \/ AddRefPoint \/ PlaceControlPoint \/ ClearRoiRefPoints
SpecLandmarks == InitLandmarks /\ [][LandmarksNext]_vars

Next ==
    \/ AtlasNext
    \/ RasToVoxel
    \/ GetRegionsForPoints
    \/ CreateVolumeFromLabels
    \/ AlignNext
    \/ MathNext
    \/ ApplyNext
    \/ MarkersNext
    \/ ButtonsNext
    \/ CalcNext
    \/ RemoveNext
    \/ LandmarksNext
Spec == Init /\ [][Next]_vars

----------------------------------------------------------------------------
(* Claims about the atlas region mapper *)

\* the manager holds a loaded atlas: handle and label array are present
Loaded(m) == m.atlas_node # NoNode /\ m.atlas_node_arr # NoArray

\* sizes of the resident label array along the world axes
SizeX(arr) == Len(arr[1][1])
SizeY(arr) == Len(arr[1])
SizeZ(arr) == Len(arr)

\* voxel (i, j, k) lies inside the atlas grid: i against the x size, j against
\* the y size, k against the z size
InsideAtlas(v, arr) ==
    /\ 0 <= v[1] /\ v[1] < SizeX(arr)
    /\ 0 <= v[2] /\ v[2] < SizeY(arr)
    /\ 0 <= v[3] /\ v[3] < SizeZ(arr)

\* C1: for every atlas and world point, _ras_to_voxel returns None exactly when
\* the rounded voxel index has a component that is negative or not below the
\* atlas size along that same axis, and the rounded triple otherwise.
C1_NoneIffOutsideAtlas ==
    (call.op = "_ras_to_voxel" /\ Loaded(MgrState)) =>
        LET v == RoundedVoxel(ras_to_ijk, call.point) IN
        /\ call.exc = "none"
        /\ (call.ret_voxel = NoValue) <=> ~InsideAtlas(v, atlas_node_arr)
        /\ call.ret_voxel # NoValue => call.ret_voxel = v

\* C2: _get_regions_for_points never reads the label array outside the array:
\* it never fails with an IndexError, whatever the atlas grid and the points.
C2_RegionsNeverIndexError ==
    (call.op = "_get_regions_for_points" /\ Loaded(MgrState)) =>
        call.exc # "IndexError"

\* the region hits the mapper is meant to report for a list of points: the
\* points whose voxel lies inside the atlas and carries a non-zero label
ExpectedHit(pt) ==
    LET v == RoundedVoxel(ras_to_ijk, pt.coordinates) IN
    /\ InsideAtlas(v, atlas_node_arr)
    /\ atlas_node_arr[v[3] + 1][v[2] + 1][v[1] + 1] # 0

ExpectedRegions(points) ==
    LET hits == SelectSeq(points, ExpectedHit) IN
    [n \in 1..Len(hits) |->
        LET v == RoundedVoxel(ras_to_ijk, hits[n].coordinates) IN
        [ point_name   |-> hits[n].name,
          coordinates  |-> hits[n].coordinates,
          voxel_coords |-> v,
          label_value  |-> atlas_node_arr[v[3] + 1][v[2] + 1][v[1] + 1] ]]

\* C9: with an atlas loaded, _get_regions_for_points returns exactly the
\* subsequence of the input points, in input order and without deduplication,
\* whose voxel is in bounds and whose label is non-zero.
C9_RegionsAreInBoundsNonZeroSubsequence ==
    (call.op = "_get_regions_for_points" /\ Loaded(MgrState)) =>
        /\ call.exc = "none"
        /\ call.ret_regions = ExpectedRegions(call.points)

\* C10: _create_volume_from_labels returns None and adds no node for the empty
\* label set; for a non-empty set S and a resident atlas it returns a new
\* volume, shaped like the atlas, whose voxel is 1 exactly where the atlas label
\* is in S and 0 elsewhere.
C10_MaskIsMembership ==
    call.op = "_create_volume_from_labels" =>
        /\ call.labels = {} =>
            (call.ret_node = NoNode /\ scene = call.pre_scene /\ call.exc = "none")
        /\ (call.labels # {} /\ atlas_node_arr # NoArray) =>
            /\ call.exc = "none"
            /\ call.ret_node \notin NodeIds(call.pre_scene)
            /\ call.ret_node \in NodeIds(ScalarVolumes(scene))
            /\ LET mask == VolumeOf(volume_data, call.ret_node).array IN
               /\ Shape(mask) = Shape(atlas_node_arr)
               /\ \A z \in 1..SizeZ(atlas_node_arr), y \in 1..SizeY(atlas_node_arr),
                     x \in 1..SizeX(atlas_node_arr) :
                       mask[z][y][x] = IF atlas_node_arr[z][y][x] \in call.labels
                                       THEN 1 ELSE 0

\* C10 witness: a mask built from two labels that has set and clear voxels
C10_Witness ==
    /\ call.op = "_create_volume_from_labels"
    /\ Cardinality(call.labels) = 2
    /\ call.ret_node # NoNode
    /\ call.exc = "none"
    /\ LET mask == VolumeOf(volume_data, call.ret_node).array IN
       /\ \E z \in 1..Len(mask), x \in 1..Len(mask[1][1]) : mask[z][1][x] = 1
       /\ \E z \in 1..Len(mask), x \in 1..Len(mask[1][1]) : mask[z][1][x] = 0

----------------------------------------------------------------------------
(* Claims about the atlas state machine *)

\* C5: set_atlas with a name outside the registry returns False and leaves the
\* manager (name, path, handle, label array) and the scene as they were.
C5_UnknownAtlasLeavesState ==
    (call.op = "set_atlas" /\ call.name \notin AVAILABLE_ATLASES) =>
        /\ call.ret_bool = FALSE
        /\ MgrState = call.pre
        /\ scene = call.pre_scene

\* C5 witness: an unknown name given to a manager that holds a loaded atlas
C5_Witness ==
    /\ call.op = "set_atlas"
    /\ call.name \notin AVAILABLE_ATLASES
    /\ Loaded(call.pre)
    /\ Loaded(MgrState)

\* the file that backs the last load_atlas call was missing when it ran
BackingFileMissing ==
    \/ /\ call.name = NoName
       /\ call.pre.atlas_path # NoPath
       /\ call.pre.atlas_path[2] \notin call.pre_files
    \/ /\ call.name \in AVAILABLE_ATLASES
       /\ call.name \notin call.pre_files

\* C6: load_atlas with the backing file missing, called with no argument or
\* with a registered name, returns None and leaves the manager as it was.
C6_MissingFileLeavesState ==
    (call.op = "load_atlas" /\ BackingFileMissing) =>
        /\ call.ret_node = NoNode
        /\ MgrState = call.pre

\* C7: a successful set_atlas on a loaded manager leaves no loaded data and
\* records the new name and path; and in every state a resident label array is
\* the array of the currently selected atlas.
C7_ResidentArrayIsCurrentAtlas ==
    /\ (call.op = "set_atlas" /\ call.ret_bool = TRUE /\ Loaded(call.pre)) =>
        /\ atlas_node = NoNode
        /\ atlas_node_arr = NoArray
        /\ current_atlas_name = call.name
        /\ atlas_path = TemplatePath(call.name)
    /\ atlas_node_arr # NoArray =>
        /\ current_atlas_name # NoName
        /\ atlas_node_arr = ArrayFromVolume(current_atlas_name, file_grid)

\* the last call loaded the atlas that was already selected and resident
ReloadOfResident ==
    /\ call.op = "load_atlas"
    /\ Loaded(call.pre)
    /\ call.name \in {NoName, call.pre.current_atlas_name}

\* C8 as stated: a second load of the resident atlas returns the existing handle,
\* adds no node and does not read the atlas file again.
C8_ReloadReadsNothing ==
    (ReloadOfResident /\ call.pre.atlas_path[2] \in call.pre_files) =>
        /\ call.ret_node = call.pre.atlas_node
        /\ scene = call.pre_scene
        /\ call.reads = 0

\* C8 amended: a second load of the resident atlas, its file still present,
\* returns the existing handle and adds no node to the scene, and it reads the
\* label array from the atlas file once more.
C8_ReloadReturnsSameHandle ==
    (ReloadOfResident /\ call.pre.atlas_path[2] \in call.pre_files) =>
        /\ call.ret_node = call.pre.atlas_node
        /\ atlas_node = call.pre.atlas_node
        /\ scene = call.pre_scene
        /\ call.reads = 1
        /\ atlas_node_arr = ArrayFromVolume(current_atlas_name, file_grid)

\* C8 witness: the resident atlas loaded again, once by name and once without
C8_Witness ==
    /\ ReloadOfResident
    /\ call.name = NoName
    /\ call.pre.atlas_path[2] \in call.pre_files
    /\ call.ret_node # NoNode

----------------------------------------------------------------------------
(* Claims about the alignment operations *)

\* the last alignment operation was handed no volume
CalledWithoutVolume ==
    /\ acall.op \in {"translate_ac", "transform_acpc", "transform_lr"}
    /\ acall.target = NoTarget

\* C3: each of translate_ac, transform_acpc and transform_lr, called with the
\* volume None, raises nothing and changes nothing: the transform table, the
\* transform nodes of the scene and the markers are as before the call.
C3_NoVolumeNoExceptionNoChange ==
    CalledWithoutVolume =>
        /\ acall.exc = "none"
        /\ transform_table = acall.pre.transform_table
        /\ transforms = acall.pre.transforms
        /\ markups = acall.pre.markups
        /\ volume_geom = acall.pre.volume_geom

\* translate_ac(p, V, None) has just run for the second time in succession
TranslatedTwice ==
    /\ acall.op = "translate_ac"
    /\ acall.prev_op = "translate_ac"
    /\ acall.target # NoTarget
    /\ acall.prev_target = acall.target
    /\ acall.prev_coord = acall.coord
    /\ acall.markup_nodes = <<NoNode>>
    /\ acall.prev_markup_nodes = <<NoNode>>

\* C4 as stated: the geometry of V after the second translate_ac(p, V, None)
\* is the geometry it had after the first.
C4_TwiceSameGeometryAsOnce ==
    TranslatedTwice =>
        volume_geom[acall.target] = acall.pre.volume_geom[acall.target]

\* every entry of the matrix is a number
FiniteMatrix(A) == \A r \in 1..4, c \in 1..4 : A[r][c] # NaN

\* C4 amended: for a volume V whose geometry holds no NaN, the second
\* translate_ac(p, V, None) moves the geometry of V by a further -p: the origin
\* column after it is the origin column after the first minus p, the axes are
\* untouched, and the geometry equals that after the first exactly when p is
\* the origin.
C4_SecondCallTranslatesAgain ==
    (TranslatedTwice /\ FiniteMatrix(acall.pre.volume_geom[acall.target])) =>
        LET once == acall.pre.volume_geom[acall.target]
            twice == volume_geom[acall.target]
            p == acall.coord
        IN  /\ \A r \in 1..3 : twice[r][4] = once[r][4] - p[r]
            /\ \A r \in 1..4, c \in 1..3 : twice[r][c] = once[r][c]
            /\ twice[4] = once[4]
            /\ (twice = once) <=> (p = <<0, 0, 0>>)

\* C4 witness: translate_ac twice with the same non-zero point on one volume
C4_Witness ==
    /\ TranslatedTwice
    /\ acall.coord = <<2, 0, 0>>
    /\ acall.exc = "none"
    /\ volume_geom[acall.target][1][4] = -4
----------------------------------------------------------------------------
(* Claims about loading with nothing selected *)

\* no atlas is selected and none is loaded
Unselected(m) ==
    /\ m.current_atlas_name = NoName
    /\ m.atlas_path = NoPath
    /\ m.atlas_node = NoNode
    /\ m.atlas_node_arr = NoArray

----------------------------------------------------------------------------
(* Claims about create_affine_matrix *)

\* the distance between two points that differ along one axis
Distance(p, q) == Norm(VSub(q, p))

\* C14: for distinct points ac and bc the matrix of create_affine_matrix maps
\* ac to the origin and bc to (0, -d, 0), d the distance between them; the
\* direction opposite to the reference axis included.
C14_MapsOntoPosteriorAxis ==
    (mcall.op = "create_affine_matrix" /\ mcall.ac # mcall.bc) =>
        /\ MatPoint(mcall.matrix, mcall.ac) = <<0, 0, 0>>
        /\ MatPoint(mcall.matrix, mcall.bc) = <<0, -Distance(mcall.ac, mcall.bc), 0>>

\* C15: create_affine_matrix(p, p) is the translation by -p with the identity
\* as rotation block, and none of its entries is NaN.
C15_EqualPointsGiveTranslation ==
    (mcall.op = "create_affine_matrix" /\ mcall.ac = mcall.bc) =>
        /\ FiniteMatrix(mcall.matrix)
        /\ mcall.matrix = << <<1, 0, 0, -mcall.ac[1]>>,
                             <<0, 1, 0, -mcall.ac[2]>>,
                             <<0, 0, 1, -mcall.ac[3]>>,
                             <<0, 0, 0, 1>> >>
----------------------------------------------------------------------------
(* Claims about repeated alignment *)

\* the Apply button has run transform_acpc on a volume for the second time in
\* succession, the first time with distinct AC and PC points; both runs took
\* their points from the AC and PC markers and baked these markers
RealignedByTwoPoints ==
    /\ acall.op = "transform_acpc"
    /\ acall.prev_op = "transform_acpc"
    /\ acall.target # NoTarget
    /\ acall.prev_target = acall.target
    /\ acall.prev_coord # acall.prev_coord2
    /\ acall.coord = get_point_ras(acall.pre.markups, acall.markup_nodes[1])
    /\ acall.coord2 = get_point_ras(acall.pre.markups, acall.markup_nodes[2])

----------------------------------------------------------------------------
(* Claims about markers and the transform table *)

\* the last operation was an alignment of a volume
AlignedVolume ==
    /\ acall.op \in {"translate_ac", "transform_acpc", "transform_lr"}
    /\ acall.target # NoTarget

\* the markers passed to the last operation, None entries left out
PassedMarkers ==
    {acall.markup_nodes[k] : k \in 1..Len(acall.markup_nodes)} \ {NoNode}

\* C17: an alignment of a volume raises nothing, whatever None entries its
\* marker list holds; the composite matrix it bakes into the volume is baked
\* into every control point of every marker passed, and no other marker
\* moves.  So while every call aligns the same volume, a marker passed to all
\* of them sits where the volume's cumulative transform takes its first place.
C17_MarkersBakedLikeVolume ==
    AlignedVolume =>
        LET composite == transforms[transform_table[acall.target]].matrix
            before == acall.pre.markups
        IN
        /\ acall.exc = "none"
        /\ volume_geom[acall.target] =
                MatMul(composite, acall.pre.volume_geom[acall.target])
        /\ Len(markups) = Len(before)
        /\ \A n \in 1..Len(markups) :
            /\ markups[n].id = before[n].id
            /\ Len(markups[n].points) = Len(before[n].points)
            /\ IF markups[n].id \in PassedMarkers
               THEN \A k \in 1..Len(markups[n].points) :
                        markups[n].points[k] = MatPoint(composite, before[n].points[k])
               ELSE markups[n] = before[n]
        /\ acall.aligned = {acall.target} =>
            \A n \in 1..Len(markups) :
                markups[n].id \in acall.always_markers =>
                    \A k \in 1..Len(markups[n].points) :
                        markups[n].points[k] =
                            MatPoint(volume_geom[acall.target], DefaultMarkups[n].points[k])

\* C17 witness: the second alignment of one volume, both with the AC and PC
\* markers and two None entries, has moved the AC marker
C17_Witness ==
    /\ AlignedVolume
    /\ acall.prev_target = acall.target
    /\ acall.markup_nodes = <<1, 2, NoNode, NoNode>>
    /\ acall.always_markers = {1, 2}
    /\ FiniteMatrix(volume_geom[acall.target])
    /\ markups[1].points[1] # acall.pre.markups[1].points[1]
    /\ acall.pre.markups[1].points[1] # DefaultMarkups[1].points[1]

\* C18: the transform table has an entry exactly for the volumes aligned so
\* far, each with a transform node of its own; the scene holds as many
\* transform nodes as volumes were aligned; an operation creates the entry of
\* a volume without one, keeps the node of a volume that has one, and removes
\* no entry.
C18_OneTransformPerAlignedVolume ==
    /\ {v \in VolumeIds : transform_table[v] # NoNode} = acall.aligned
    /\ Len(transforms) = Cardinality(acall.aligned)
    /\ \A v \in acall.aligned :
        /\ transform_table[v] \in 1..Len(transforms)
        /\ transforms[transform_table[v]].volume = v
    /\ \A v \in VolumeIds :
        acall.pre.transform_table[v] # NoNode =>
            transform_table[v] = acall.pre.transform_table[v]
    /\ (AlignedVolume /\ acall.exc = "none") =>
        Len(transforms) = Len(acall.pre.transforms)
            + (IF acall.pre.transform_table[acall.target] = NoNode THEN 1 ELSE 0)

\* C18 witness: a volume aligned twice in succession keeps its one node
C18_Witness ==
    /\ AlignedVolume
    /\ acall.prev_op \in {"translate_ac", "transform_acpc", "transform_lr"}
    /\ acall.prev_target = acall.target
    /\ acall.aligned = {acall.target}
    /\ Len(transforms) = 1
    /\ transforms[1].matrix # acall.pre.transforms[1].matrix

----------------------------------------------------------------------------
(* Claims about the ROI and Ref landmarks and the combined regions *)

\* the landmark collection mks[i] has the role prefix
HasRole(mks, i, prefix) == StartsWith(mks[i].name, prefix)

\* the entry for control point j (0-based) of collection mks[i]
EntryOf(mks, i, j) ==
    [name |-> PointName(mks[i].name, j), coordinates |-> mks[i].points[j + 1],
     node |-> mks[i].id]

\* C13: _get_points_by_prefix returns one entry for every control point of
\* every landmark collection whose name starts with the prefix, the entry
\* <owner>_<j> carrying the coordinates of control point j of its owner, and
\* no entry for any other collection.
C13_EntryCarriesItsOwnPoint ==
    call.op = "_get_points_by_prefix" =>
        LET mks == call.pre_markups
            ret == call.ret_points
        IN
        /\ \A i \in 1..Len(mks) : HasRole(mks, i, call.name) =>
                \A j \in 0..(Len(mks[i].points) - 1) :
                    \E n \in 1..Len(ret) : ret[n] = EntryOf(mks, i, j)
        /\ \A n \in 1..Len(ret) :
                \E i \in 1..Len(mks) :
                    /\ HasRole(mks, i, call.name)
                    /\ \E j \in 0..(Len(mks[i].points) - 1) : ret[n] = EntryOf(mks, i, j)

\* no atlas is loaded in manager state m
NoAtlasLoaded(m) == m.atlas_node = NoNode \/ m.current_atlas_name = NoName

\* no collection of mks with the ROI or the Ref prefix holds a control point
NoRolePoints(mks) ==
    \A i \in 1..Len(mks) :
        (HasRole(mks, i, "ROI_") \/ HasRole(mks, i, "Ref_")) => Len(mks[i].points) = 0

\* C12: calculate_brain_regions shows an error and returns (None, None) when
\* no atlas is loaded, whatever landmarks exist; with an atlas loaded and no
\* ROI or Ref landmark it shows a warning and returns two empty lists; in both
\* cases it raises nothing and leaves the manager, the scene and the landmarks
\* as they were.
C12_NoAtlasIsErrorNoPointsIsWarning ==
    call.op = "calculate_brain_regions" =>
        /\ NoAtlasLoaded(call.pre) =>
            /\ call.ret_none
            /\ call.display = "error"
        /\ (~NoAtlasLoaded(call.pre) /\ NoRolePoints(call.pre_markups)) =>
            /\ ~call.ret_none
            /\ call.ret_regions = <<>>
            /\ call.ret_ref_regions = <<>>
            /\ call.display = "warning"
        /\ (NoAtlasLoaded(call.pre) \/ NoRolePoints(call.pre_markups)) =>
            /\ call.exc = "none"
            /\ MgrState = call.pre
            /\ scene = call.pre_scene
            /\ markups = call.pre_markups

\* C12 witness: the error for a manager that has selected but not loaded an
\* atlas, with an ROI landmark in the scene
C12_Witness ==
    /\ call.op = "calculate_brain_regions"
    /\ call.pre.current_atlas_name # NoName
    /\ call.pre.atlas_node = NoNode
    /\ ~NoRolePoints(call.pre_markups)
    /\ call.display = "error"

\* the mask of volume node is 1 exactly where the atlas label is the label of
\* one of the regions
MaskOfRegions(node, regions) ==
    LET mask == VolumeOf(volume_data, node).array IN
    /\ Shape(mask) = Shape(atlas_node_arr)
    /\ \A z \in 1..SizeZ(atlas_node_arr), y \in 1..SizeY(atlas_node_arr),
          x \in 1..SizeX(atlas_node_arr) :
            mask[z][y][x] = IF \E n \in 1..Len(regions) :
                                   regions[n].label_value = atlas_node_arr[z][y][x]
                            THEN 1 ELSE 0

\* the number of role groups with a region hit in the last call
HitGroups ==
    (IF Len(call.ret_regions) > 0 THEN 1 ELSE 0)
    + (IF Len(call.ret_ref_regions) > 0 THEN 1 ELSE 0)

C11_WitnessOneGroup ==
    /\ call.op = "generate_combined_regions"
    /\ call.exc = "none"
    /\ Len(call.ret_regions) > 0
    /\ Len(call.ret_ref_regions) = 0
    /\ call.ret_ref_volume = NoNode

\* the collections of mks that have neither role prefix, in their order
WithoutRoles(mks) ==
    SelectSeq(mks, LAMBDA node : ~(StartsWith(node.name, "ROI_")
                                   \/ StartsWith(node.name, "Ref_")))

\* C19: clear_roi_ref_points removes every landmark collection whose name
\* starts with "ROI_" or "Ref_" and leaves every other collection, with its
\* points, as it was.
C19_ClearRemovesOnlyRoleNodes ==
    call.op = "clear_roi_ref_points" => markups = WithoutRoles(call.pre_markups)

\* C19 witness: two ROI collections and a Ref collection removed from a scene
\* that also held the AC landmark
C19_Witness ==
    /\ call.op = "clear_roi_ref_points"
    /\ Len(call.pre_markups) = 4
    /\ Len(markups) = 1
    /\ markups[1].name = "AC"
    /\ markups[1].points # <<>>

----------------------------------------------------------------------------
(* Claims about the manager after construction *)

\* C21: immediately after construction the atlas_path of the manager is
\* <plugin_path>/templates/BN_Atlas_246_2mm.seg.nrrd.
C21_InitialPathIsBnTemplate ==
    call.op = "__init__" => atlas_path = TemplatePath("BN_Atlas_246_2mm.seg.nrrd")

----------------------------------------------------------------------------
(* Claims about remove_specific_markups *)

\* the state at the return of remove_specific_markups: no node with a listed
\* name is left, a search for a listed name finds nothing, and the other
\* nodes are all there, in their order
RemovedListedOnly ==
    /\ \A n \in 1..Len(markups) : markups[n].name \notin rm.names
    /\ \A name \in rm.names : find_markup_node_by_name(markups, name) = NoNode
    /\ markups = SelectSeq(rm.pre, LAMBDA node : node.name \notin rm.names)
    /\ markups = remove_specific_markups(rm.pre, rm.names)

\* C22: remove_specific_markups(names) terminates on every scene, and at its
\* return no fiducial node with a name of names is left (nodes that share a
\* name included) while every node with another name is still there.
C22_RemoveTerminatesAndRemovesListed ==
    /\ [](rm.pc = "done" => RemovedListedOnly)
    /\ (rm.pc \in {"while", "for"}) ~> (rm.pc = "done")

\* C22 witness: two nodes that share a listed name removed, a third node kept
C22_Witness ==
    /\ rm.pc = "done"
    /\ Len(rm.pre) = 3
    /\ rm.pre[1].name = rm.pre[3].name
    /\ rm.pre[1].name \in rm.names
    /\ Len(markups) = 1
    /\ markups[1] = rm.pre[2]

----------------------------------------------------------------------------
(* Claims about create_translation_matrix *)

\* C23: create_translation_matrix(v) is the identity except for rows 1..3 of
\* the last column, which hold v; the rotation block is the identity and the
\* bottom row is (0, 0, 0, 1).
C23_TranslationMatrixIsIdentityPlusColumn ==
    mcall.op = "create_translation_matrix" =>
        /\ \A r \in 1..3 : mcall.matrix[r][4] = mcall.ac[r]
        /\ \A r \in 1..3, c \in 1..3 : mcall.matrix[r][c] = Identity4[r][c]
        /\ mcall.matrix[4] = <<0, 0, 0, 1>>

\* C23 witness: a translation with three nonzero, unequal components
C23_Witness ==
    /\ mcall.op = "create_translation_matrix"
    /\ mcall.ac = <<2, -2, 2>>
    /\ mcall.matrix[2][4] = -2

----------------------------------------------------------------------------
(* Claims about the asynchronous calculations *)

\* calculation c has started: a process was created for it
Started(c) == \E p \in 1..Len(processes) : processes[p].calc = c

\* the callback of calculation c has been invoked
Invoked(c) == \E k \in 1..Len(callbacks) : callbacks[k].calc = c

\* C24: every calculation that has started has its callback invoked in the
\* end, whatever calls are made while it runs.
C24_StartedIsCalledBack ==
    \A c \in 1..MaxCalcs : Started(c) ~> Invoked(c)

\* C25: no callback is invoked twice, whatever signals the process emits and in
\* whatever order; and the callback of a calculation that had started runs
\* with the logic idle: no current process, no stored callback, empty buffers.
C25_CallbackOnceAndIdle ==
    /\ \A i \in 1..Len(callbacks), j \in 1..Len(callbacks) :
        i # j => callbacks[i].calc # callbacks[j].calc
    /\ \A k \in 1..Len(callbacks) : Started(callbacks[k].calc) => callbacks[k].idle

\* C25 witness: a process crashed, errorOccurred and finished were both
\* emitted, the callback ran once and requested the calculation now running
C25_Witness ==
    /\ Len(processes) = 2
    /\ processes[1].outcome = {"errorOccurred", "finished_failed"}
    /\ processes[1].pending = {}
    /\ Len(callbacks) = 1
    /\ callbacks[1].calc = 1
    /\ callbacks[1].idle
    /\ metric.current_process = 2

\* the last step was a calculation call with valid inputs made while a
\* calculation was running
ValidCallWhileRunning ==
    /\ ccall.op \in {"calculate_metric_async", "calculate_suvr_async"}
    /\ ccall.valid
    /\ ccall.pre.current_process # NoNode

\* C26: a call with valid inputs made while a calculation runs returns False,
\* starts no process, leaves the logic (process handle, callback, context,
\* buffers) as it was, and invokes the new call's callback with the failure
\* "another calculation is already running" and not the running one's; no
\* process but the current one is connected to the handlers.
C26_SecondCallRejected ==
    /\ ValidCallWhileRunning =>
        /\ ccall.ret = FALSE
        /\ metric = ccall.pre
        /\ processes = ccall.pre_processes
        /\ Len(callbacks) > Len(ccall.pre_callbacks)
        /\ SubSeq(callbacks, 1, Len(ccall.pre_callbacks)) = ccall.pre_callbacks
        /\ callbacks[Len(ccall.pre_callbacks) + 1] =
                [calc |-> ccall.callback.calc, success |-> FALSE, result_text |-> <<>>,
                 error_message |-> BusyMessage, idle |-> FALSE]
        /\ \A k \in (Len(ccall.pre_callbacks) + 1)..Len(callbacks) :
                /\ callbacks[k].calc # ccall.pre.async_callback.calc
                /\ callbacks[k].error_message = BusyMessage
    /\ \A p \in 1..Len(processes) :
        processes[p].connected => metric.current_process = p

\* C26 witness: a call rejected while the running calculation had output
\* buffered
C26_Witness ==
    /\ ValidCallWhileRunning
    /\ ccall.pre.process_stdout # <<>>
    /\ ccall.ret = FALSE
    /\ metric.process_stdout # <<>>
    /\ processes[metric.current_process].status = "running"

----------------------------------------------------------------------------
(* Claims about handle and label array *)

\* C27: in every reachable state of the manager the atlas handle is absent
\* exactly when the label array is absent.
C27_HandleIffArray ==
    (atlas_node = NoNode) <=> (atlas_node_arr = NoArray)

----------------------------------------------------------------------------
(* Claims about the names of the landmark collections *)

\* C28: after any sequence of add_roi_point, add_ref_point, placements and
\* clear_roi_ref_points the fiducial nodes of the scene have pairwise
\* distinct names.
C28_DistinctNames ==
    \A i \in 1..Len(markups), j \in 1..Len(markups) :
        i # j => markups[i].name # markups[j].name

----------------------------------------------------------------------------
(* Claims about the two Apply buttons *)

\* C29: an Apply or Apply-LR that aligns the input volume moves every AC, PC,
\* Left and Right landmark of the scene by the matrix it bakes into the
\* volume, whichever of the four exist.
C29_LandmarksFollowVolume ==
    (AlignedVolume /\ acall.exc = "none") =>
        LET composite == transforms[transform_table[acall.target]].matrix
            before == acall.pre.markups
        IN
        /\ volume_geom[acall.target] =
                MatMul(composite, acall.pre.volume_geom[acall.target])
        /\ \A n \in 1..Len(markups) :
            markups[n].name \in {"AC", "PC", "Left", "Right"} =>
                markups[n].points = HardenPoints(before[n].points, composite)

----------------------------------------------------------------------------
(* Claims about transform_lr *)

\* the last operation was a transform_lr of a volume with distinct points
LateralAligned ==
    /\ acall.op = "transform_lr"
    /\ acall.target # NoTarget
    /\ acall.coord # acall.coord2

\* C30: transform_lr with distinct left and right points bakes a matrix whose
\* translation part is zero and whose bottom row is (0, 0, 0, 1), so a marker
\* passed to it that sat at the world origin still sits there.
C30_LateralRotationFixesOrigin ==
    LateralAligned =>
        LET composite == transforms[transform_table[acall.target]].matrix
            before == acall.pre.markups
        IN
        /\ \A r \in 1..3 : composite[r][4] = 0
        /\ composite[4] = <<0, 0, 0, 1>>
        /\ MatPoint(composite, <<0, 0, 0>>) = <<0, 0, 0>>
        /\ \A n \in 1..Len(markups) :
            markups[n].id \in PassedMarkers =>
                \A k \in 1..Len(markups[n].points) :
                    before[n].points[k] = <<0, 0, 0>> =>
                        markups[n].points[k] = <<0, 0, 0>>

\* C30 witness: translate_ac moved the AC marker to the origin, then a
\* transform_lr that turns the volume a quarter left it there
C30_Witness ==
    /\ LateralAligned
    /\ acall.prev_op = "translate_ac"
    /\ acall.prev_target = acall.target
    /\ 1 \in PassedMarkers
    /\ acall.pre.markups[1].points[1] = <<0, 0, 0>>
    /\ markups[1].points[1] = <<0, 0, 0>>
    /\ markups[2].points[1] # acall.pre.markups[2].points[1]
    /\ transforms[transform_table[acall.target]].matrix # Identity4

============================================================================
